---------------------------- MODULE Spec2Model ----------------------------
(***************************************************************************)
(* Branch/tree synchronisation of the webhook responder.                   *)
(*                                                                         *)
(* Paths are sequences of one-character strings, so that startsWith,       *)
(* endsWith and equality are computed as the code computes them.  Blob     *)
(* SHAs are the numbers 1..NumShas; a tree is a function from the paths    *)
(* it holds to blob SHAs and stands for its own (content-addressed) SHA.   *)
(* Commits are the entries of the sequence commits; a commit SHA is its    *)
(* index.                                                                  *)
(***************************************************************************)
EXTENDS Integers, Sequences, FiniteSets, TLC

VARIABLES
    op,             \* the operation the webhook router invoked
    run,            \* how many times the router has invoked it
    startRefs,      \* the branch heads when the invocation started
    parent,         \* its parameter: "production" or "staging"
    includeJsonFiles, \* parameter of updateSGCOnParentPush
    refs,           \* the repository's branch heads: [parent, sgc] -> commit
    commits,        \* the repository's commits
    pc,             \* the await the invocation is suspended at
    sgcSha, parentSha,
    sgcFiles,       \* part_001: filtered listing of sgc; part_004: Map path -> sha
    shopifyFiles,   \* part_004: filtered listing of the parent branch
    parentFiles,    \* part_001: Map path -> sha of the parent branch
    treeUpdates, filesUpdated, filesAdded, filesDeleted,
    blobsToFetch,   \* Map sha -> file, as its entries in insertion order
    idx,            \* position of batchProcess / of the for loop
    blob,           \* response of the last GET blob
    newTree, newCommit,
    error,          \* the value caught by the catch block
    outcome,        \* how the invocation ended
    log,            \* the requests issued, in order
    stagingExists, productionSha, stagingSha,
    productionCommit, rebaseCommit,   \* squash rebase: responses
    mergeBase,      \* replay rebase: response of the compare request
    stagingCommits, currentParentSha, commitDetails,
    options,        \* rateLimitedRequest: maxRetries, baseDelay, maxDelay
    attempt, lastError,
    delay,          \* rateLimitedRequest: the sleep it is suspended in
    now,            \* Date.now(), in ms
    response,       \* rateLimitedRequest: the value it returns
    items,          \* batchProcess: the items to process
    batchOptions,   \* batchSize, delayBetweenBatches, delayBetweenItems
    batchI, batchJ, \* batchProcess: i of the outer loop, j of the inner loop
    results,        \* batchProcess: the results pushed so far
    event,          \* push router: the push event being routed
    description,    \* preview theme: the body of the pull request
    themes,         \* preview theme: the ids of the themes of the store
    previewRuns     \* preview theme: the runs of handlePreviewTheme

vars == << op, run, startRefs, parent, includeJsonFiles, refs, commits, pc, sgcSha, parentSha,
           sgcFiles, shopifyFiles, parentFiles, treeUpdates, filesUpdated,
           filesAdded, filesDeleted, blobsToFetch, idx, blob, newTree,
           newCommit, error, outcome, log, stagingExists, productionSha,
           stagingSha, productionCommit, rebaseCommit, mergeBase,
           stagingCommits, currentParentSha, commitDetails, options,
           attempt, lastError, delay, now, response, items, batchOptions,
           batchI, batchJ, results, event, description, themes,
           previewRuns >>

\* The parameters of an invocation: no request handler assigns them.
inputs == << op, run, startRefs, parent, includeJsonFiles >>

\* The options and locals of rateLimitedRequest, and the clock.
limiterLocals == << options, attempt, lastError, delay, now, response >>

\* The parameters and locals of batchProcess.
batchLocals == << items, batchOptions, batchI, batchJ, results >>

\* The payload the push router works on.
routerLocals == << event >>

\* The pull request, the theme store and the runs of handlePreviewTheme.
previewLocals == << description, themes, previewRuns >>

\* No pull-request event is being handled.
NoPreview == description = << >> /\ themes = {} /\ previewRuns = << >>

\* The locals of updateStagingOnProductionPush.
rebaseLocals ==
    << stagingExists, productionSha, stagingSha, productionCommit,
       rebaseCommit, mergeBase, stagingCommits, currentParentSha,
       commitDetails >>

-----------------------------------------------------------------------------
\* Bounds of the model.

\* Number of distinct blob SHAs the initial trees draw from.
NumShas == 2

\* Most commits that production has and staging lacks, in the rebase specs.
MaxAhead == 1

\* Most commits that staging has and production lacks, in the rebase specs.
MaxUnique == 2

\* Largest maxRetries that rateLimitedRequest is called with.
MaxRetriesTried == 2

\* Number of invocations in a row the router makes in SpecTwice.
MaxRuns == 2

-----------------------------------------------------------------------------
\* Strings as character sequences.

StartsWith(s, p) ==
    Len(s) >= Len(p) /\ SubSeq(s, 1, Len(p)) = p

EndsWith(s, p) ==
    Len(s) >= Len(p) /\ SubSeq(s, Len(s) - Len(p) + 1, Len(s)) = p

Slash == << "/" >>
DotJson == << ".", "j", "s", "o", "n" >>

assets    == << "a", "s", "s", "e", "t", "s" >>
blocks    == << "b", "l", "o", "c", "k", "s" >>
config    == << "c", "o", "n", "f", "i", "g" >>
layout    == << "l", "a", "y", "o", "u", "t" >>
locales   == << "l", "o", "c", "a", "l", "e", "s" >>
sections  == << "s", "e", "c", "t", "i", "o", "n", "s" >>
snippets  == << "s", "n", "i", "p", "p", "e", "t", "s" >>
templates == << "t", "e", "m", "p", "l", "a", "t", "e", "s" >>

shopifyFolders ==
    << assets, blocks, config, layout, locales, sections, snippets, templates >>

settingsSchemaPath ==
    config \o Slash \o << "s", "e", "t", "t", "i", "n", "g", "s", "_",
                          "s", "c", "h", "e", "m", "a" >> \o DotJson

\* The file paths of the model's repositories.
pAssetsA    == assets \o Slash \o << "a", ".", "j", "s" >>
pAssetsFoo  == assets \o << "f", "o", "o" >> \o Slash \o << "x", ".", "j", "s" >>
pBuildX     == << "b", "u", "i", "l", "d" >> \o Slash \o << "x", ".", "j", "s" >>
pConfigJson == config \o Slash \o << "o", "t", "h", "e", "r" >> \o DotJson
pLayout     == layout
pSnippetB   == snippets \o Slash \o << "b" >>
pTemplJson  == templates \o Slash \o << "x" >> \o DotJson

pReadme     == << "R", "E", "A", "D", "M", "E" >>

\* The paths a tree of SpecScope holds next to README: a first part followed
\* by a rest, among them each folder name alone, as a directory, and as a mere
\* string prefix.
ScopePrefixes ==
    << assets, blocks, config, layout, locales, sections, snippets, templates,
       << "b", "u", "i", "l", "d" >>,
       << "a", "s", "s", "e", "t" >>,
       << "A", "s", "s", "e", "t", "s" >>,
       << "s", "r", "c" >> \o Slash \o assets >>

ScopeSuffixes ==
    << << >>,
       Slash \o << "x", ".", "j", "s" >>,
       Slash \o << "s", "u", "b" >> \o Slash \o << "x", ".", "j", "s" >>,
       << "f", "o", "o" >> \o Slash \o << "y", ".", "j", "s" >>,
       << "x" >>,
       << ".", "j", "s" >> >>

ScopePaths ==
    [k \in 1 .. Len(ScopePrefixes) * Len(ScopeSuffixes) |->
        ScopePrefixes[((k - 1) \div Len(ScopeSuffixes)) + 1]
          \o ScopeSuffixes[((k - 1) % Len(ScopeSuffixes)) + 1]]

\* Every path of the model in the order of a recursive tree listing.
RepoPaths ==
    << pReadme, pAssetsA, pAssetsFoo, pBuildX, pConfigJson, settingsSchemaPath,
       pLayout, pSnippetB, pTemplJson >>

pAssetsB == assets \o Slash \o << "b", ".", "j", "s" >>

pAssetsC == assets \o Slash \o << "c", ".", "j", "s" >>

AllPaths ==
    RepoPaths \o SelectSeq(ScopePaths,
                           LAMBDA q : \A k \in 1 .. Len(RepoPaths) : RepoPaths[k] # q)
              \o << pAssetsB, pAssetsC >>

\* The path sets the initial trees of one repository are drawn over.
UniversesParentSync ==
    { {pAssetsA, pConfigJson, pAssetsFoo} }

Shas == 1 .. NumShas

\* All trees over a set of paths.
TreesOver(ps) ==
    UNION { [d -> Shas] : d \in SUBSET ps }


-----------------------------------------------------------------------------
\* The object store (the repository on the platform).

\* sha: null in a tree-update entry deletes the path.
null == 0

\* GET blob answers the blob's content (base64) for its SHA; POST blob
\* answers the SHA of the content it is given: blobs are content-addressed.
BlobContent(sha) == << "base64", sha >>
BlobShaOf(content) == content[2]

RECURSIVE DirEntries(_, _, _)
\* The directory entries of path p (type "tree") not listed yet.
DirEntries(p, seen, i) ==
    IF i > Len(p) THEN << >>
    ELSE IF p[i] = "/" /\ SubSeq(p, 1, i - 1) \notin seen
         THEN << [path |-> SubSeq(p, 1, i - 1), mode |-> "040000",
                  type |-> "tree", sha |-> -1] >>
              \o DirEntries(p, seen, i + 1)
         ELSE DirEntries(p, seen, i + 1)

RECURSIVE ListFrom(_, _, _)
ListFrom(tree, i, seen) ==
    IF i > Len(AllPaths) THEN << >>
    ELSE LET p == AllPaths[i]
         IN  IF p \notin DOMAIN tree THEN ListFrom(tree, i + 1, seen)
             ELSE LET ds == DirEntries(p, seen, 1)
                  IN  ds
                      \o << [path |-> p, mode |-> "100644", type |-> "blob",
                             sha |-> tree[p]] >>
                      \o ListFrom(tree, i + 1,
                                  seen \cup { ds[k].path : k \in 1 .. Len(ds) })

\* GET /git/trees/{sha}?recursive=true: directories and files, flattened.
GetTreeRecursive(commit) == ListFrom(commits[commit].tree, 1, {})

RECURSIVE ApplyUpdates(_, _, _)
\* POST /git/trees: the base tree overlaid with the entries, in order.
ApplyUpdates(tree, updates, i) ==
    IF i > Len(updates) THEN tree
    ELSE LET u == updates[i]
             t == IF u.sha = null
                  THEN [q \in DOMAIN tree \ {u.path} |-> tree[q]]
                  ELSE [q \in DOMAIN tree \cup {u.path} |->
                           IF q = u.path THEN u.sha ELSE tree[q]]
         IN  ApplyUpdates(t, updates, i + 1)

CreateTree(baseCommit, updates) ==
    ApplyUpdates(commits[baseCommit].tree, updates, 1)

RECURSIVE Ancestors(_)
\* The commits reachable from c, c included.
Ancestors(c) ==
    {c} \cup UNION { Ancestors(commits[c].parents[k]) :
                       k \in 1 .. Len(commits[c].parents) }

IsFastForward(old, new) == old \in Ancestors(new)

MergeBase(a, b) ==
    LET common == Ancestors(a) \cap Ancestors(b)
    IN  CHOOSE c \in common : \A d \in common : d <= c

At(tree, p) == IF p \in DOMAIN tree THEN tree[p] ELSE null

MergeConflicts(base, ours, theirs) ==
    { p \in DOMAIN ours \cup DOMAIN theirs :
        /\ At(ours, p) # At(theirs, p)
        /\ At(ours, p) # At(base, p)
        /\ At(theirs, p) # At(base, p) }

\* The platform's three-way merge, file by file.
MergeTrees(base, ours, theirs) ==
    LET pick(p) == IF At(ours, p) = At(base, p) THEN At(theirs, p)
                   ELSE At(ours, p)
        keep == { p \in DOMAIN ours \cup DOMAIN theirs : pick(p) # null }
    IN  [p \in keep |-> pick(p)]

-----------------------------------------------------------------------------
\* Errors a request can be rejected with.

Includes(s, sub) ==
    \E i \in 1 .. Len(s) - Len(sub) + 1 : SubSeq(s, i, i + Len(sub) - 1) = sub

conflictWord == << "c", "o", "n", "f", "l", "i", "c", "t" >>

msgValidation == << "V", "a", "l", "i", "d", "a", "t", "i", "o", "n" >>
msgConflict   == << "M", "e", "r", "g", "e", " " >> \o conflictWord
msgNotFound   == << "N", "o", "t", " ", "F", "o", "u", "n", "d" >>

\* status 0 and hasMessage FALSE stand for a value without that property.
Errors ==
    { [status |-> 422, hasMessage |-> TRUE,  message |-> msgValidation],
      [status |-> 409, hasMessage |-> TRUE,  message |-> msgConflict],
      [status |-> 404, hasMessage |-> TRUE,  message |-> msgNotFound],
      [status |-> 0,   hasMessage |-> FALSE, message |-> << >>] }

noError == [status |-> 0, hasMessage |-> TRUE, message |-> << >>]

\* A slip: only the status is looked at.
CatchDecisionStatusOnly(e) ==
    IF e.status = 422 THEN "merge" ELSE "skip"

\* error.status === 422 || error.message.includes('conflict'): "merge",
\* "skip", or "throw" when .includes is called on undefined.
CatchDecision(e) ==
    IF e.status = 422 THEN "merge"
    ELSE IF ~e.hasMessage THEN "throw"
    ELSE IF Includes(e.message, conflictWord) THEN "merge"
    ELSE "skip"

Req(name, arg, ok) == [req |-> name, arg |-> arg, ok |-> ok]

-----------------------------------------------------------------------------
\* updateParentOnSGCPush (rate-limited variant): pure parts.

disableStagingJSONSync == FALSE

\* A slip: the "/" after the folder name is lost.
isInShopifyFolderPrefixOnly(path) ==
    \E k \in 1 .. Len(shopifyFolders) :
        StartsWith(path, shopifyFolders[k]) \/ path = shopifyFolders[k]

\* shopifyFolders.some(folder => path.startsWith(folder + '/') || path === folder)
isInShopifyFolder(path) ==
    \E k \in 1 .. Len(shopifyFolders) :
        StartsWith(path, shopifyFolders[k] \o Slash) \/ path = shopifyFolders[k]

\* A slip: deletion is not restricted to the Shopify folders.
UnscopedDeletion(filePath) == TRUE

\* The same test as written in the deletion loop.
isInShopifyFolderForDeletion(filePath) ==
    \E k \in 1 .. Len(shopifyFolders) :
        StartsWith(filePath, shopifyFolders[k] \o Slash)
          \/ filePath = shopifyFolders[k]

\* sgcTree.data.tree.filter(...)
KeepSgcItem(item, par) ==
    IF item.type # "blob" THEN FALSE
    ELSE IF par = "staging" /\ disableStagingJSONSync
         THEN ~EndsWith(item.path, DotJson) \/ item.path = settingsSchemaPath
         ELSE TRUE

FilterSgcTree(listing, par) ==
    SelectSeq(listing, LAMBDA item : KeepSgcItem(item, par))

RECURSIVE BuildParentFiles(_, _, _)
\* parentTree.data.tree.forEach(item => parentFiles.set(item.path, item.sha))
BuildParentFiles(listing, i, m) ==
    IF i > Len(listing) THEN m
    ELSE IF listing[i].type = "blob"
         THEN BuildParentFiles(listing, i + 1,
                [q \in DOMAIN m \cup {listing[i].path} |->
                    IF q = listing[i].path THEN listing[i].sha ELSE m[q]])
         ELSE BuildParentFiles(listing, i + 1, m)

\* A slip: the Set is never filled.
parentBlobShasEmpty(pf) == {}

\* The Set filled next to parentFiles: every blob SHA of the parent tree.
parentBlobShas(pf) == { pf[q] : q \in DOMAIN pf }

sgcFilePaths == { sgcFiles[k].path : k \in 1 .. Len(sgcFiles) }

\* Map.set on the entries of a Map kept in insertion order.
MapSet(entries, key, value) ==
    IF \E k \in 1 .. Len(entries) : entries[k].key = key
    THEN [k \in 1 .. Len(entries) |->
            IF entries[k].key = key THEN [key |-> key, value |-> value]
            ELSE entries[k]]
    ELSE Append(entries, [key |-> key, value |-> value])

\* Map keys in insertion order: the order of the tree listing.
MapKeys(m) ==
    SelectSeq(AllPaths, LAMBDA q : q \in DOMAIN m)

RECURSIVE DiffLoop(_, _, _, _)
\* for (const sgcFile of sgcFiles) { ... }
DiffLoop(files, pf, i, acc) ==
    IF i > Len(files) THEN acc
    ELSE LET sgcFile == files[i]
         IN  IF ~isInShopifyFolder(sgcFile.path)
             THEN DiffLoop(files, pf, i + 1, acc)
             ELSE IF sgcFile.path \in DOMAIN pf /\ pf[sgcFile.path] = sgcFile.sha
             THEN DiffLoop(files, pf, i + 1, acc)
             ELSE IF sgcFile.sha \in parentBlobShas(pf)
             THEN DiffLoop(files, pf, i + 1,
                    [acc EXCEPT
                       !.treeUpdates = Append(@, [path |-> sgcFile.path,
                                                  mode |-> sgcFile.mode,
                                                  type |-> "blob",
                                                  sha |-> sgcFile.sha]),
                       !.filesUpdated =
                           IF sgcFile.path \in DOMAIN pf THEN @ + 1 ELSE @,
                       !.filesAdded =
                           IF sgcFile.path \in DOMAIN pf THEN @ ELSE @ + 1])
             ELSE DiffLoop(files, pf, i + 1,
                    [acc EXCEPT
                       !.blobsToFetch = MapSet(@, sgcFile.sha, sgcFile)])

\* A slip: the negation of the membership test is lost.
MarkedForDeletionInverted(filePath, srcPaths) == filePath \in srcPaths

\* !sgcFilePaths.has(filePath)
MarkedForDeletion(filePath, srcPaths) == filePath \notin srcPaths

RECURSIVE DeletionLoop(_, _, _, _, _)
\* for (const [filePath, _fileSha] of parentFiles.entries()) { ... }
DeletionLoop(keys, srcPaths, par, i, acc) ==
    IF i > Len(keys) THEN acc
    ELSE LET filePath == keys[i]
         IN  IF ~isInShopifyFolderForDeletion(filePath)
             THEN DeletionLoop(keys, srcPaths, par, i + 1, acc)
             ELSE IF /\ par = "staging" /\ disableStagingJSONSync
                     /\ EndsWith(filePath, DotJson)
                     /\ filePath # settingsSchemaPath
             THEN DeletionLoop(keys, srcPaths, par, i + 1, acc)
             ELSE IF MarkedForDeletion(filePath, srcPaths)
             THEN DeletionLoop(keys, srcPaths, par, i + 1,
                    [acc EXCEPT
                       !.treeUpdates = Append(@, [path |-> filePath,
                                                  mode |-> "100644",
                                                  type |-> "blob",
                                                  sha |-> null]),
                       !.filesDeleted = @ + 1])
             ELSE DeletionLoop(keys, srcPaths, par, i + 1, acc)

\* The commit message "Sync files from sgc-<parent> (a added, u updated, d deleted)".
SyncMessage(par, a, u, d) ==
    [kind |-> "sync", from |-> "sgc", parent |-> par,
     added |-> a, updated |-> u, deleted |-> d]

\* A slip: the commit also names the source head as a parent.
CommitParentsBoth(head, source) == << head, source >>

\* parents: [parentSha]
CommitParents(head, source) == << head >>

-----------------------------------------------------------------------------
\* updateParentOnSGCPush: the invocation, one action per awaited request.

ParentSyncPcs ==
    { "getSgcRef", "getParentRef", "getSgcTree", "getParentTree", "getBlob",
      "createBlob", "createTree", "createCommit", "updateRef" }

\* A slip: the ref update is forced.
SyncForceOn == TRUE

\* The PATCH of the ref carries no force field.
SyncForce == FALSE

\* The request the invocation is about to issue.
\* A slip: base and head of the fallback merge are exchanged.
FallbackMergeArgsSwapped == [base |-> "sgc", head |-> "parent"]

\* base: parent, head: `sgc-${parent}`
FallbackMergeArgs == [base |-> "parent", head |-> "sgc"]

CurrentRequest(ok) ==
    CASE pc = "getSgcRef"     -> Req("getRef", "sgc", ok)
      [] pc = "getParentRef"  -> Req("getRef", "parent", ok)
      [] pc = "getSgcTree"    -> Req("getTree", sgcSha, ok)
      [] pc = "getParentTree" -> Req("getTree", parentSha, ok)
      [] pc = "getBlob"       -> Req("getBlob", blobsToFetch[idx].key, ok)
      [] pc = "createBlob"    -> Req("createBlob", blob, ok)
      [] pc = "createTree"    ->
             Req("createTree", [base_tree |-> parentSha, tree |-> treeUpdates], ok)
      [] pc = "createCommit"  ->
             Req("createCommit",
                 [message |-> SyncMessage(parent, filesAdded, filesUpdated,
                                          filesDeleted),
                  tree |-> newTree, parents |-> CommitParents(parentSha, sgcSha)], ok)
      [] pc = "updateRef"     ->
             Req("updateRef",
                 [ref |-> "parent", sha |-> newCommit, force |-> SyncForce],
                 ok)
      [] pc = "fallbackMerge" ->
             Req("merge", FallbackMergeArgs, ok)

Issue(ok) == log' = Append(log, CurrentRequest(ok))

Return(how) == pc' = "done" /\ outcome' = how

GetSgcRef ==
    /\ op = "updateParentOnSGCPush" /\ pc = "getSgcRef"
    /\ Issue(TRUE)
    /\ sgcSha' = refs.sgc
    /\ pc' = "getParentRef"
    /\ UNCHANGED << inputs, previewLocals, batchLocals, routerLocals, limiterLocals, rebaseLocals, refs, commits, parentSha,
                    sgcFiles, shopifyFiles, parentFiles, treeUpdates,
                    filesUpdated, filesAdded, filesDeleted, blobsToFetch, idx,
                    blob, newTree, newCommit, error, outcome >>

GetParentRef ==
    /\ op = "updateParentOnSGCPush" /\ pc = "getParentRef"
    /\ Issue(TRUE)
    /\ parentSha' = refs.parent
    /\ pc' = "getSgcTree"
    /\ UNCHANGED << inputs, previewLocals, batchLocals, routerLocals, limiterLocals, rebaseLocals, refs, commits, sgcSha,
                    sgcFiles, shopifyFiles, parentFiles, treeUpdates,
                    filesUpdated, filesAdded, filesDeleted, blobsToFetch, idx,
                    blob, newTree, newCommit, error, outcome >>

\* GET the sgc tree, filter it, and return when no file is left.
GetSgcTree ==
    /\ op = "updateParentOnSGCPush" /\ pc = "getSgcTree"
    /\ Issue(TRUE)
    /\ sgcFiles' = FilterSgcTree(GetTreeRecursive(sgcSha), parent)
    /\ IF Len(sgcFiles') = 0
       THEN Return("noSgcFiles")
       ELSE pc' = "getParentTree" /\ UNCHANGED outcome
    /\ UNCHANGED << inputs, previewLocals, batchLocals, routerLocals, limiterLocals, rebaseLocals, refs, commits, sgcSha,
                    parentSha, shopifyFiles, parentFiles, treeUpdates,
                    filesUpdated, filesAdded, filesDeleted, blobsToFetch, idx,
                    blob, newTree, newCommit, error >>

\* A slip: the early return is lost.
NothingToPublishNever(tu) == FALSE

\* treeUpdates.length === 0
NothingToPublish(tu) == Len(tu) = 0

\* A slip: batchProcess is left after its first item.
BatchDoneEarly(i, entries) == TRUE

\* batchProcess has run the processor on every entry of blobEntries.
BatchDone(i, entries) == i = Len(entries)

\* What follows batchProcess without a further await: the deletion loop and
\* the return when no tree-update was recorded.
AfterBatch(tu, pf) ==
    LET acc == DeletionLoop(MapKeys(pf), sgcFilePaths, parent, 1,
                            [treeUpdates |-> tu, filesDeleted |-> 0])
    IN  /\ treeUpdates' = acc.treeUpdates
        /\ filesDeleted' = acc.filesDeleted
        /\ IF NothingToPublish(acc.treeUpdates)
           THEN Return("noUpdates")
           ELSE pc' = "createTree" /\ UNCHANGED outcome

\* GET the parent tree and run the diff loop; batchProcess starts.
GetParentTree ==
    /\ op = "updateParentOnSGCPush" /\ pc = "getParentTree"
    /\ Issue(TRUE)
    /\ parentFiles' = BuildParentFiles(GetTreeRecursive(parentSha), 1, << >>)
    /\ LET acc == DiffLoop(sgcFiles, parentFiles', 1,
                           [treeUpdates |-> << >>, filesUpdated |-> 0,
                            filesAdded |-> 0, blobsToFetch |-> << >>])
       IN  /\ filesUpdated' = acc.filesUpdated
           /\ filesAdded' = acc.filesAdded
           /\ blobsToFetch' = acc.blobsToFetch
           /\ IF BatchDone(0, acc.blobsToFetch)
              THEN AfterBatch(acc.treeUpdates, parentFiles') /\ UNCHANGED idx
              ELSE /\ treeUpdates' = acc.treeUpdates
                   /\ idx' = 1
                   /\ pc' = "getBlob"
                   /\ UNCHANGED << filesDeleted, outcome >>
    /\ UNCHANGED << inputs, previewLocals, batchLocals, routerLocals, limiterLocals, rebaseLocals, refs, commits, sgcSha,
                    parentSha, sgcFiles, shopifyFiles, blob, newTree,
                    newCommit, error >>

\* The processor of batchProcess, first request: GET the blob from sgc.
GetBlob ==
    /\ op = "updateParentOnSGCPush" /\ pc = "getBlob"
    /\ Issue(TRUE)
    /\ blob' = BlobContent(blobsToFetch[idx].key)
    /\ pc' = "createBlob"
    /\ UNCHANGED << inputs, previewLocals, batchLocals, routerLocals, limiterLocals, rebaseLocals, refs, commits, sgcSha,
                    parentSha, sgcFiles, shopifyFiles, parentFiles,
                    treeUpdates, filesUpdated, filesAdded, filesDeleted,
                    blobsToFetch, idx, newTree, newCommit, error, outcome >>

\* Second request of the processor: POST the blob, record the tree-update.
CreateBlob ==
    /\ op = "updateParentOnSGCPush" /\ pc = "createBlob"
    /\ Issue(TRUE)
    /\ LET sgcFile == blobsToFetch[idx].value
           tu == Append(treeUpdates, [path |-> sgcFile.path,
                                      mode |-> sgcFile.mode,
                                      type |-> "blob",
                                      sha |-> BlobShaOf(blob)])
       IN  /\ IF sgcFile.path \in DOMAIN parentFiles
              THEN filesUpdated' = filesUpdated + 1 /\ UNCHANGED filesAdded
              ELSE filesAdded' = filesAdded + 1 /\ UNCHANGED filesUpdated
           /\ IF BatchDone(idx, blobsToFetch)
              THEN AfterBatch(tu, parentFiles) /\ UNCHANGED idx
              ELSE /\ treeUpdates' = tu
                   /\ idx' = idx + 1
                   /\ pc' = "getBlob"
                   /\ UNCHANGED << filesDeleted, outcome >>
    /\ UNCHANGED << inputs, previewLocals, batchLocals, routerLocals, limiterLocals, rebaseLocals, refs, commits, sgcSha,
                    parentSha, sgcFiles, shopifyFiles, parentFiles,
                    blobsToFetch, blob, newTree, newCommit, error >>

PostTree ==
    /\ op = "updateParentOnSGCPush" /\ pc = "createTree"
    /\ Issue(TRUE)
    /\ newTree' = CreateTree(parentSha, treeUpdates)
    /\ pc' = "createCommit"
    /\ UNCHANGED << inputs, previewLocals, batchLocals, routerLocals, limiterLocals, rebaseLocals, refs, commits, sgcSha,
                    parentSha, sgcFiles, shopifyFiles, parentFiles,
                    treeUpdates, filesUpdated, filesAdded, filesDeleted,
                    blobsToFetch, idx, blob, newCommit, error, outcome >>

PostCommit ==
    /\ op = "updateParentOnSGCPush" /\ pc = "createCommit"
    /\ Issue(TRUE)
    /\ commits' = Append(commits,
                    [tree |-> newTree, parents |-> CommitParents(parentSha, sgcSha),
                     message |-> SyncMessage(parent, filesAdded, filesUpdated,
                                             filesDeleted)])
    /\ newCommit' = Len(commits) + 1
    /\ pc' = "updateRef"
    /\ UNCHANGED << inputs, previewLocals, batchLocals, routerLocals, limiterLocals, rebaseLocals, refs, sgcSha, parentSha,
                    sgcFiles, shopifyFiles, parentFiles, treeUpdates,
                    filesUpdated, filesAdded, filesDeleted, blobsToFetch, idx,
                    blob, newTree, error, outcome >>

\* PATCH the parent ref, without force: the platform takes a fast-forward.
PatchRef ==
    /\ op = "updateParentOnSGCPush" /\ pc = "updateRef"
    /\ SyncForce \/ IsFastForward(refs.parent, newCommit)
    /\ Issue(TRUE)
    /\ refs' = [refs EXCEPT !.parent = newCommit]
    /\ Return("synced")
    /\ UNCHANGED << inputs, previewLocals, batchLocals, routerLocals, limiterLocals, rebaseLocals, commits, sgcSha, parentSha,
                    sgcFiles, shopifyFiles, parentFiles, treeUpdates,
                    filesUpdated, filesAdded, filesDeleted, blobsToFetch, idx,
                    blob, newTree, newCommit, error >>

\* Any request of the try block is rejected: the catch block runs up to its
\* own await.
RequestFails ==
    /\ op = "updateParentOnSGCPush" /\ pc \in ParentSyncPcs
    /\ \E e \in Errors :
        /\ Issue(FALSE)
        /\ error' = e
        /\ CASE CatchDecision(e) = "merge" ->
                    pc' = "fallbackMerge" /\ UNCHANGED outcome
             [] CatchDecision(e) = "throw" -> Return("threw")
             [] OTHER -> Return("failed")
    /\ UNCHANGED << inputs, previewLocals, batchLocals, routerLocals, limiterLocals, rebaseLocals, refs, commits, sgcSha,
                    parentSha, sgcFiles, shopifyFiles, parentFiles,
                    treeUpdates, filesUpdated, filesAdded, filesDeleted,
                    blobsToFetch, idx, blob, newTree, newCommit >>

\* POST /merges base = <parent>, head = sgc-<parent>: the platform merges.
FallbackMerge ==
    /\ op = "updateParentOnSGCPush" /\ pc = "fallbackMerge"
    /\ LET into == refs[FallbackMergeArgs.base]
           from == refs[FallbackMergeArgs.head]
           base == MergeBase(into, from)
           ours == commits[into].tree
           theirs == commits[from].tree
       IN  /\ MergeConflicts(commits[base].tree, ours, theirs) = {}
           /\ IF from \in Ancestors(into)
              THEN UNCHANGED << refs, commits >>
              ELSE /\ commits' = Append(commits,
                         [tree |-> MergeTrees(commits[base].tree, ours, theirs),
                          parents |-> << into, from >>,
                          message |-> [kind |-> "merge", from |-> "sgc",
                                       parent |-> parent, added |-> 0,
                                       updated |-> 0, deleted |-> 0]])
                   /\ refs' = [refs EXCEPT ![FallbackMergeArgs.base] =
                                                Len(commits) + 1]
    /\ Issue(TRUE)
    /\ Return("merged")
    /\ UNCHANGED << inputs, previewLocals, batchLocals, routerLocals, limiterLocals, rebaseLocals, sgcSha, parentSha, sgcFiles,
                    shopifyFiles, parentFiles, treeUpdates, filesUpdated,
                    filesAdded, filesDeleted, blobsToFetch, idx, blob,
                    newTree, newCommit, error >>

\* The merge request is rejected: the inner catch logs and the function returns.
FallbackMergeFails ==
    /\ op = "updateParentOnSGCPush" /\ pc = "fallbackMerge"
    /\ Issue(FALSE)
    /\ Return("mergeFailed")
    /\ UNCHANGED << inputs, previewLocals, batchLocals, routerLocals, limiterLocals, rebaseLocals, refs, commits, sgcSha,
                    parentSha, sgcFiles, shopifyFiles, parentFiles,
                    treeUpdates, filesUpdated, filesAdded, filesDeleted,
                    blobsToFetch, idx, blob, newTree, newCommit, error >>

\* The repository before the push event: sgc-<parent> was branched from
\* <parent> and has been edited since.
InitRepo(universes) ==
    \E u \in universes :
      \E tp \in TreesOver(u), ts \in TreesOver(u) :
        /\ commits = << [tree |-> tp, parents |-> << >>,
                         message |-> [kind |-> "init", from |-> "none",
                                      parent |-> "none", added |-> 0,
                                      updated |-> 0, deleted |-> 0]],
                        [tree |-> ts, parents |-> << 1 >>,
                         message |-> [kind |-> "edit", from |-> "none",
                                      parent |-> "none", added |-> 0,
                                      updated |-> 0, deleted |-> 0]] >>
        /\ refs = [parent |-> 1, sgc |-> 2]
        /\ startRefs = refs

InitLocals ==
    /\ sgcSha = 0 /\ parentSha = 0
    /\ sgcFiles = << >> /\ shopifyFiles = << >> /\ parentFiles = << >>
    /\ treeUpdates = << >>
    /\ filesUpdated = 0 /\ filesAdded = 0 /\ filesDeleted = 0
    /\ blobsToFetch = << >> /\ idx = 0 /\ blob = << >>
    /\ newTree = << >> /\ newCommit = 0
    /\ error = noError /\ outcome = "running" /\ log = << >>
    /\ stagingExists = FALSE /\ productionSha = 0 /\ stagingSha = 0
    /\ productionCommit = << >> /\ rebaseCommit = 0 /\ mergeBase = << >>
    /\ stagingCommits = << >> /\ currentParentSha = 0
    /\ commitDetails = << >>
    /\ options = << >> /\ attempt = 0 /\ lastError = << >>
    /\ delay = 0 /\ now = 0 /\ response = << >>
    /\ items = << >> /\ batchOptions = << >>
    /\ batchI = 0 /\ batchJ = 0 /\ results = << >>
    /\ NoPreview
    /\ event = << >>

\* The next push event to sgc-<parent> with nothing changed in between: the
\* router invokes the operation again after a sync that published.
Rerun ==
    /\ op = "updateParentOnSGCPush" /\ pc = "done" /\ outcome = "synced"
    /\ run < MaxRuns
    /\ run' = run + 1
    /\ startRefs' = refs
    /\ pc' = "getSgcRef"
    /\ sgcSha' = 0 /\ parentSha' = 0
    /\ sgcFiles' = << >> /\ parentFiles' = << >>
    /\ treeUpdates' = << >>
    /\ filesUpdated' = 0 /\ filesAdded' = 0 /\ filesDeleted' = 0
    /\ blobsToFetch' = << >> /\ idx' = 0 /\ blob' = << >>
    /\ newTree' = << >> /\ newCommit' = 0
    /\ error' = noError /\ outcome' = "running" /\ log' = << >>
    /\ UNCHANGED << op, parent, includeJsonFiles, refs, commits, shopifyFiles,
                    batchLocals, routerLocals, previewLocals,
                    rebaseLocals, limiterLocals >>

\* A repository of README (the same on both branches) and one more path.
InitScopeRepo ==
    \E k \in 1 .. Len(ScopePaths) :
      \E tp \in TreesOver({ScopePaths[k]}), ts \in TreesOver({ScopePaths[k]}) :
        /\ commits = << [tree |-> (pReadme :> 1) @@ tp, parents |-> << >>,
                         message |-> [kind |-> "init", from |-> "none",
                                      parent |-> "none", added |-> 0,
                                      updated |-> 0, deleted |-> 0]],
                        [tree |-> (pReadme :> 1) @@ ts, parents |-> << 1 >>,
                         message |-> [kind |-> "edit", from |-> "none",
                                      parent |-> "none", added |-> 0,
                                      updated |-> 0, deleted |-> 0]] >>
        /\ refs = [parent |-> 1, sgc |-> 2]
        /\ startRefs = refs

InitScope ==
    /\ op = "updateParentOnSGCPush"
    /\ run = 1
    /\ parent \in {"production", "staging"}
    /\ includeJsonFiles = FALSE
    /\ InitScopeRepo
    /\ InitLocals
    /\ pc = "getSgcRef"

Init ==
    /\ op = "updateParentOnSGCPush"
    /\ run = 1
    /\ parent \in {"production", "staging"}
    /\ includeJsonFiles = FALSE
    /\ InitRepo(UniversesParentSync)
    /\ InitLocals
    /\ pc = "getSgcRef"

Next ==
    \/ GetSgcRef \/ GetParentRef \/ GetSgcTree \/ GetParentTree
    \/ GetBlob \/ CreateBlob \/ PostTree \/ PostCommit \/ PatchRef
    \/ RequestFails \/ FallbackMerge \/ FallbackMergeFails

Spec == Init /\ [][Next]_vars

SpecScope == InitScope /\ [][Next]_vars

\* Three files of one allow-listed directory, over three blob SHAs.
CountedPaths == {pAssetsA, pAssetsB, pAssetsC}

CountedTrees == UNION { [d -> 1 .. 3] : d \in SUBSET CountedPaths }

InitCounted ==
    /\ op = "updateParentOnSGCPush"
    /\ run = 1
    /\ parent = "production"
    /\ includeJsonFiles = FALSE
    /\ \E tp \in CountedTrees, ts \in CountedTrees :
          commits = << [tree |-> tp, parents |-> << >>,
                        message |-> [kind |-> "init", from |-> "none",
                                     parent |-> "none", added |-> 0,
                                     updated |-> 0, deleted |-> 0]],
                       [tree |-> ts, parents |-> << 1 >>,
                        message |-> [kind |-> "edit", from |-> "none",
                                     parent |-> "none", added |-> 0,
                                     updated |-> 0, deleted |-> 0]] >>
    /\ refs = [parent |-> 1, sgc |-> 2]
    /\ startRefs = refs
    /\ InitLocals
    /\ pc = "getSgcRef"

SpecCounted == InitCounted /\ [][Next]_vars

\* Largest number of pushes by others during one invocation.
MaxPushes == 1

\* The commits pushed by others during the invocation.
ConcurrentCommits ==
    { c \in 1 .. Len(commits) : commits[c].message.kind = "concurrent" }

\* Between the read of the head of <parent> and the end of the invocation
\* someone else moves <parent>: a push that leaves the files as they are, or
\* the publish of a second sync, which makes them those of sgc-<parent>.
ConcurrentPush ==
    /\ op = "updateParentOnSGCPush" /\ parentSha # 0 /\ pc # "done"
    /\ Cardinality(ConcurrentCommits) < MaxPushes
    /\ \E t \in { commits[refs.parent].tree, commits[refs.sgc].tree } :
          commits' = Append(commits,
                            [tree |-> t, parents |-> << refs.parent >>,
                             message |-> [kind |-> "concurrent",
                                          from |-> "none", parent |-> "none",
                                          added |-> 0, updated |-> 0,
                                          deleted |-> 0]])
    /\ refs' = [refs EXCEPT !.parent = Len(commits) + 1]
    /\ UNCHANGED << inputs, previewLocals, batchLocals, routerLocals, limiterLocals,
                    rebaseLocals, sgcSha, parentSha, sgcFiles, shopifyFiles,
                    parentFiles, treeUpdates, filesUpdated, filesAdded,
                    filesDeleted, blobsToFetch, idx, blob, newTree, newCommit,
                    pc, error, outcome, log >>

\* The path set the trees of the repository are drawn over here.
UniversesConcurrent == { {pAssetsA, pConfigJson} }

InitConcurrent ==
    /\ op = "updateParentOnSGCPush"
    /\ run = 1
    /\ parent \in {"production", "staging"}
    /\ includeJsonFiles = FALSE
    /\ InitRepo(UniversesConcurrent)
    /\ InitLocals
    /\ pc = "getSgcRef"

NextConcurrent == Next \/ ConcurrentPush

SpecConcurrent == InitConcurrent /\ [][NextConcurrent]_vars

-----------------------------------------------------------------------------
\* updateSGCOnParentPush: pure parts.

\* A slip: the settings_schema.json exception is lost.
isNotJsonNoException(path, includeJson) ==
    includeJson \/ ~EndsWith(path, DotJson)

\* includeJsonFiles || !item.path.endsWith('.json') || isSettingsSchema
isNotJson(path, includeJson) ==
    includeJson \/ ~EndsWith(path, DotJson) \/ path = settingsSchemaPath

\* The filter of the earlier updateParentOnSGCPush, whose JSON exclusion is
\* switched by the parent alone.
KeepSgcItemOfStaging(item, par) ==
    IF item.type # "blob" THEN FALSE
    ELSE IF par = "staging"
         THEN ~EndsWith(item.path, DotJson) \/ item.path = settingsSchemaPath
         ELSE TRUE

\* A filter that lets every path of the parent tree through.
isInAnyFolderOfParent(path) == TRUE

\* The test of the parent tree's filter, as written there.
isInShopifyFolderOfParent(path) ==
    \E k \in 1 .. Len(shopifyFolders) :
        StartsWith(path, shopifyFolders[k] \o Slash) \/ path = shopifyFolders[k]

\* parentTree.data.tree.filter(...)
KeepShopifyItem(item, includeJson) ==
    IF item.type # "blob" THEN FALSE
    ELSE isInShopifyFolderOfParent(item.path) /\ isNotJson(item.path, includeJson)

FilterParentTree(listing, includeJson) ==
    SelectSeq(listing, LAMBDA item : KeepShopifyItem(item, includeJson))

\* The file is in sgc-<parent> with the same SHA: the loop continues.
UpToDate(file, sf) ==
    file.path \in DOMAIN sf /\ sf[file.path] = file.sha

RECURSIVE NextToTransfer(_, _, _)
\* The loop runs without an await up to the next file it has to transfer.
NextToTransfer(files, sf, i) ==
    IF i > Len(files) THEN i
    ELSE IF UpToDate(files[i], sf) THEN NextToTransfer(files, sf, i + 1)
         ELSE i

\* "Sync Shopify files from <parent> (a added, u updated)"
SyncMessageSGC(par, a, u) ==
    [kind |-> "sync", from |-> "parent", parent |-> par,
     added |-> a, updated |-> u, deleted |-> 0]

\* A slip: the commit also names the source head as a parent.
CommitParentsSGCBoth(head, source) == << head, source >>

\* parents: [sgcSha]
CommitParentsSGC(head, source) == << head >>

-----------------------------------------------------------------------------
\* updateSGCOnParentPush: the invocation, one action per awaited request.

SGCSync == op = "updateSGCOnParentPush"

SGCSyncPcs ==
    { "getParentRef", "getSgcRef", "getParentTree", "getSgcTree", "getBlob",
      "createBlob", "createTree", "createCommit", "updateRef" }

CurrentRequestSGC(ok) ==
    CASE pc = "getParentRef"  -> Req("getRef", "parent", ok)
      [] pc = "getSgcRef"     -> Req("getRef", "sgc", ok)
      [] pc = "getParentTree" -> Req("getTree", parentSha, ok)
      [] pc = "getSgcTree"    -> Req("getTree", sgcSha, ok)
      [] pc = "getBlob"       -> Req("getBlob", shopifyFiles[idx].sha, ok)
      [] pc = "createBlob"    -> Req("createBlob", blob, ok)
      [] pc = "createTree"    ->
             Req("createTree", [base_tree |-> sgcSha, tree |-> treeUpdates], ok)
      [] pc = "createCommit"  ->
             Req("createCommit",
                 [message |-> SyncMessageSGC(parent, filesAdded, filesUpdated),
                  tree |-> newTree,
                  parents |-> CommitParentsSGC(sgcSha, parentSha)], ok)
      [] pc = "updateRef"     ->
             Req("updateRef",
                 [ref |-> "sgc", sha |-> newCommit, force |-> FALSE], ok)
      [] pc = "fallbackMerge" ->
             Req("merge", [base |-> "sgc", head |-> "parent"], ok)

IssueSGC(ok) == log' = Append(log, CurrentRequestSGC(ok))

SGCGetParentRef ==
    /\ SGCSync /\ pc = "getParentRef"
    /\ IssueSGC(TRUE)
    /\ parentSha' = refs.parent
    /\ pc' = "getSgcRef"
    /\ UNCHANGED << inputs, previewLocals, batchLocals, routerLocals, limiterLocals, rebaseLocals, refs, commits, sgcSha, sgcFiles, shopifyFiles,
                    parentFiles, treeUpdates, filesUpdated, filesAdded,
                    filesDeleted, blobsToFetch, idx, blob, newTree, newCommit,
                    error, outcome >>

SGCGetSgcRef ==
    /\ SGCSync /\ pc = "getSgcRef"
    /\ IssueSGC(TRUE)
    /\ sgcSha' = refs.sgc
    /\ pc' = "getParentTree"
    /\ UNCHANGED << inputs, previewLocals, batchLocals, routerLocals, limiterLocals, rebaseLocals, refs, commits, parentSha, sgcFiles, shopifyFiles,
                    parentFiles, treeUpdates, filesUpdated, filesAdded,
                    filesDeleted, blobsToFetch, idx, blob, newTree, newCommit,
                    error, outcome >>

\* GET the parent tree, filter it, and return when no file is left.
SGCGetParentTree ==
    /\ SGCSync /\ pc = "getParentTree"
    /\ IssueSGC(TRUE)
    /\ shopifyFiles' = FilterParentTree(GetTreeRecursive(parentSha),
                                        includeJsonFiles)
    /\ IF Len(shopifyFiles') = 0
       THEN Return("noShopifyFiles")
       ELSE pc' = "getSgcTree" /\ UNCHANGED outcome
    /\ UNCHANGED << inputs, previewLocals, batchLocals, routerLocals, limiterLocals, rebaseLocals, refs, commits, sgcSha, parentSha, sgcFiles,
                    parentFiles, treeUpdates, filesUpdated, filesAdded,
                    filesDeleted, blobsToFetch, idx, blob, newTree, newCommit,
                    error >>

\* The loop over shopifyFiles has reached position i without a pending
\* request: it stops at the next transfer, or ends.
LoopFrom(i, sf, tu) ==
    LET j == NextToTransfer(shopifyFiles, sf, i)
    IN  /\ idx' = j
        /\ IF j <= Len(shopifyFiles)
           THEN pc' = "getBlob" /\ UNCHANGED outcome
           ELSE IF Len(tu) = 0
                THEN Return("noUpdates")
                ELSE pc' = "createTree" /\ UNCHANGED outcome

\* GET the sgc tree, build the Map, enter the loop.
SGCGetSgcTree ==
    /\ SGCSync /\ pc = "getSgcTree"
    /\ IssueSGC(TRUE)
    /\ sgcFiles' = BuildParentFiles(GetTreeRecursive(sgcSha), 1, << >>)
    /\ LoopFrom(1, sgcFiles', treeUpdates)
    /\ UNCHANGED << inputs, previewLocals, batchLocals, routerLocals, limiterLocals, rebaseLocals, refs, commits, sgcSha, parentSha, shopifyFiles,
                    parentFiles, treeUpdates, filesUpdated, filesAdded,
                    filesDeleted, blobsToFetch, blob, newTree, newCommit,
                    error >>

SGCGetBlob ==
    /\ SGCSync /\ pc = "getBlob"
    /\ IssueSGC(TRUE)
    /\ blob' = BlobContent(shopifyFiles[idx].sha)
    /\ pc' = "createBlob"
    /\ UNCHANGED << inputs, previewLocals, batchLocals, routerLocals, limiterLocals, rebaseLocals, refs, commits, sgcSha, parentSha, sgcFiles,
                    shopifyFiles, parentFiles, treeUpdates, filesUpdated,
                    filesAdded, filesDeleted, blobsToFetch, idx, newTree,
                    newCommit, error, outcome >>

\* POST the blob, record the tree-update and go on with the loop.
SGCCreateBlob ==
    /\ SGCSync /\ pc = "createBlob"
    /\ IssueSGC(TRUE)
    /\ LET shopifyFile == shopifyFiles[idx]
       IN  /\ treeUpdates' = Append(treeUpdates,
                                [path |-> shopifyFile.path,
                                 mode |-> shopifyFile.mode,
                                 type |-> "blob",
                                 sha |-> BlobShaOf(blob)])
           /\ IF shopifyFile.path \in DOMAIN sgcFiles
              THEN filesUpdated' = filesUpdated + 1 /\ UNCHANGED filesAdded
              ELSE filesAdded' = filesAdded + 1 /\ UNCHANGED filesUpdated
    /\ LoopFrom(idx + 1, sgcFiles, treeUpdates')
    /\ UNCHANGED << inputs, previewLocals, batchLocals, routerLocals, limiterLocals, rebaseLocals, refs, commits, sgcSha, parentSha, sgcFiles,
                    shopifyFiles, parentFiles, filesDeleted, blobsToFetch,
                    blob, newTree, newCommit, error >>

SGCPostTree ==
    /\ SGCSync /\ pc = "createTree"
    /\ IssueSGC(TRUE)
    /\ newTree' = CreateTree(sgcSha, treeUpdates)
    /\ pc' = "createCommit"
    /\ UNCHANGED << inputs, previewLocals, batchLocals, routerLocals, limiterLocals, rebaseLocals, refs, commits, sgcSha, parentSha, sgcFiles,
                    shopifyFiles, parentFiles, treeUpdates, filesUpdated,
                    filesAdded, filesDeleted, blobsToFetch, idx, blob,
                    newCommit, error, outcome >>

SGCPostCommit ==
    /\ SGCSync /\ pc = "createCommit"
    /\ IssueSGC(TRUE)
    /\ commits' = Append(commits,
                    [tree |-> newTree,
                     parents |-> CommitParentsSGC(sgcSha, parentSha),
                     message |-> SyncMessageSGC(parent, filesAdded,
                                                filesUpdated)])
    /\ newCommit' = Len(commits) + 1
    /\ pc' = "updateRef"
    /\ UNCHANGED << inputs, previewLocals, batchLocals, routerLocals, limiterLocals, rebaseLocals, refs, sgcSha, parentSha, sgcFiles, shopifyFiles,
                    parentFiles, treeUpdates, filesUpdated, filesAdded,
                    filesDeleted, blobsToFetch, idx, blob, newTree, error,
                    outcome >>

\* PATCH the sgc ref, without force.
SGCPatchRef ==
    /\ SGCSync /\ pc = "updateRef"
    /\ IsFastForward(refs.sgc, newCommit)
    /\ IssueSGC(TRUE)
    /\ refs' = [refs EXCEPT !.sgc = newCommit]
    /\ Return("synced")
    /\ UNCHANGED << inputs, previewLocals, batchLocals, routerLocals, limiterLocals, rebaseLocals, commits, sgcSha, parentSha, sgcFiles,
                    shopifyFiles, parentFiles, treeUpdates, filesUpdated,
                    filesAdded, filesDeleted, blobsToFetch, idx, blob,
                    newTree, newCommit, error >>

SGCRequestFails ==
    /\ SGCSync /\ pc \in SGCSyncPcs
    /\ \E e \in Errors :
        /\ IssueSGC(FALSE)
        /\ error' = e
        /\ CASE CatchDecision(e) = "merge" ->
                    pc' = "fallbackMerge" /\ UNCHANGED outcome
             [] CatchDecision(e) = "throw" -> Return("threw")
             [] OTHER -> Return("failed")
    /\ UNCHANGED << inputs, previewLocals, batchLocals, routerLocals, limiterLocals, rebaseLocals, refs, commits, sgcSha, parentSha, sgcFiles,
                    shopifyFiles, parentFiles, treeUpdates, filesUpdated,
                    filesAdded, filesDeleted, blobsToFetch, idx, blob,
                    newTree, newCommit >>

\* POST /merges base = sgc-<parent>, head = <parent>.
SGCFallbackMerge ==
    /\ SGCSync /\ pc = "fallbackMerge"
    /\ LET base == MergeBase(refs.sgc, refs.parent)
           ours == commits[refs.sgc].tree
           theirs == commits[refs.parent].tree
       IN  /\ MergeConflicts(commits[base].tree, ours, theirs) = {}
           /\ IF refs.parent \in Ancestors(refs.sgc)
              THEN UNCHANGED << refs, commits >>
              ELSE /\ commits' = Append(commits,
                         [tree |-> MergeTrees(commits[base].tree, ours, theirs),
                          parents |-> << refs.sgc, refs.parent >>,
                          message |-> [kind |-> "merge", from |-> "parent",
                                       parent |-> parent, added |-> 0,
                                       updated |-> 0, deleted |-> 0]])
                   /\ refs' = [refs EXCEPT !.sgc = Len(commits) + 1]
    /\ IssueSGC(TRUE)
    /\ Return("merged")
    /\ UNCHANGED << inputs, previewLocals, batchLocals, routerLocals, limiterLocals, rebaseLocals, sgcSha, parentSha, sgcFiles, shopifyFiles,
                    parentFiles, treeUpdates, filesUpdated, filesAdded,
                    filesDeleted, blobsToFetch, idx, blob, newTree,
                    newCommit, error >>

SGCFallbackMergeFails ==
    /\ SGCSync /\ pc = "fallbackMerge"
    /\ IssueSGC(FALSE)
    /\ Return("mergeFailed")
    /\ UNCHANGED << inputs, previewLocals, batchLocals, routerLocals, limiterLocals, rebaseLocals, refs, commits, sgcSha, parentSha, sgcFiles,
                    shopifyFiles, parentFiles, treeUpdates, filesUpdated,
                    filesAdded, filesDeleted, blobsToFetch, idx, blob,
                    newTree, newCommit, error >>

UniversesSGCSync ==
    { {settingsSchemaPath, pTemplJson, pAssetsA}, {pBuildX, pConfigJson} }

\* The repository before the push event: <parent> is ahead of sgc-<parent>.
InitRepoSGC(universes) ==
    \E u \in universes :
      \E tp \in TreesOver(u), ts \in TreesOver(u) :
        /\ commits = << [tree |-> ts, parents |-> << >>,
                         message |-> [kind |-> "init", from |-> "none",
                                      parent |-> "none", added |-> 0,
                                      updated |-> 0, deleted |-> 0]],
                        [tree |-> tp, parents |-> << 1 >>,
                         message |-> [kind |-> "edit", from |-> "none",
                                      parent |-> "none", added |-> 0,
                                      updated |-> 0, deleted |-> 0]] >>
        /\ refs = [sgc |-> 1, parent |-> 2]
        /\ startRefs = refs

\* The router passes "staging" and includeJsonFiles = false; the parameter is
\* free for other callers.
InitSGC ==
    /\ op = "updateSGCOnParentPush"
    /\ run = 1
    /\ parent = "staging"
    /\ includeJsonFiles \in BOOLEAN
    /\ InitRepoSGC(UniversesSGCSync)
    /\ InitLocals
    /\ pc = "getParentRef"

NextSGC ==
    \/ SGCGetParentRef \/ SGCGetSgcRef \/ SGCGetParentTree \/ SGCGetSgcTree
    \/ SGCGetBlob \/ SGCCreateBlob \/ SGCPostTree \/ SGCPostCommit
    \/ SGCPatchRef \/ SGCRequestFails \/ SGCFallbackMerge
    \/ SGCFallbackMergeFails

SpecSGC == InitSGC /\ [][NextSGC]_vars

\* Either direction of the sync.
InitBoth == Init \/ InitSGC

NextBoth == Next \/ NextSGC

SpecBoth == InitBoth /\ [][NextBoth]_vars

\* Both directions, the first with pushes by others to its destination.
InitReadOnly == InitConcurrent \/ InitSGC

NextReadOnly == NextConcurrent \/ NextSGC

SpecReadOnly == InitReadOnly /\ [][NextReadOnly]_vars

-----------------------------------------------------------------------------
\* updateStagingOnProductionPush: the platform's side.

RECURSIVE SortedSeq(_)
\* The commits of a set, oldest first (a commit SHA is its index in commits).
SortedSeq(S) ==
    IF S = {} THEN << >>
    ELSE LET m == CHOOSE x \in S : \A y \in S : x <= y
         IN  << m >> \o SortedSeq(S \ {m})

\* GET /compare/{base}...{head}: the merge base and the commits of head that
\* base lacks, oldest first.
Compare(base, head) ==
    [merge_base_commit |-> MergeBase(refs[base], refs[head]),
     commits |-> SortedSeq(Ancestors(refs[head]) \ Ancestors(refs[base]))]

\* Array.prototype.reverse
Reverse(seq) == [i \in 1 .. Len(seq) |-> seq[Len(seq) + 1 - i]]

\* GET /git/commits/{commit_sha}
GetCommit(sha) ==
    [sha |-> sha, tree |-> commits[sha].tree, message |-> commits[sha].message]

\* POST /git/commits
CreateCommit(message, tree, parents) ==
    Append(commits, [tree |-> tree, parents |-> parents, message |-> message])

-----------------------------------------------------------------------------
\* updateStagingOnProductionPush, squash variant (rate-limited).

SquashRebase == op = "updateStagingOnProductionPush:squash"

ReplayRebase == op = "updateStagingOnProductionPush:replay"

\* `Rebase staging onto production (${productionSha.slice(0, 7)})`
RebaseMessage(sha) == [kind |-> "rebase", onto |-> sha]

\* A slip: a 404 of the lookup is treated like any other error.
NotFoundIsAnError(e) == FALSE

\* error.status === 404
BranchNotFound(e) == e.status = 404

\* A slip: the comparison of the two heads is dropped.
NeverUpToDate(staging, production) == FALSE

\* stagingSha === productionSha
AlreadyUpToDate(staging, production) == staging = production

\* A slip: the ref update of the rebase is not forced.
RebaseForceOff == FALSE

\* force: true
RebaseForce == TRUE

SquashPcs ==
    { "checkStaging", "getProductionRef", "getStagingRef",
      "getProductionCommit", "createRebaseCommit", "updateStagingRef" }

CurrentRequestSquash(ok) ==
    CASE pc = "checkStaging"        -> Req("getRef", "staging", ok)
      [] pc = "getProductionRef"    -> Req("getRef", "production", ok)
      [] pc = "getStagingRef"       -> Req("getRef", "staging", ok)
      [] pc = "getProductionCommit" -> Req("getCommit", productionSha, ok)
      [] pc = "createRebaseCommit"  ->
             Req("createCommit",
                 [message |-> RebaseMessage(productionSha),
                  tree |-> productionCommit.tree,
                  parents |-> << productionSha >>], ok)
      [] pc = "updateStagingRef"    ->
             Req("updateRef",
                 [ref |-> "staging", sha |-> rebaseCommit,
                  force |-> RebaseForce], ok)

IssueSquash(ok) == log' = Append(log, CurrentRequestSquash(ok))

\* The locals of the other operations.
syncLocals ==
    << sgcSha, parentSha, sgcFiles, shopifyFiles, parentFiles, treeUpdates,
       filesUpdated, filesAdded, filesDeleted, blobsToFetch, blob, newTree,
       newCommit >>

\* The staging ref is there: stagingExists = true.
SquashCheckStaging ==
    /\ SquashRebase /\ pc = "checkStaging"
    /\ refs.staging # null
    /\ IssueSquash(TRUE)
    /\ stagingExists' = TRUE
    /\ pc' = "getProductionRef"
    /\ UNCHANGED << inputs, previewLocals, batchLocals, routerLocals, limiterLocals, syncLocals, refs, commits, idx, error, outcome,
                    productionSha, stagingSha, productionCommit,
                    rebaseCommit, mergeBase, stagingCommits,
                    currentParentSha, commitDetails >>

SquashGetProductionRef ==
    /\ SquashRebase /\ pc = "getProductionRef"
    /\ IssueSquash(TRUE)
    /\ productionSha' = refs.production
    /\ pc' = "getStagingRef"
    /\ UNCHANGED << inputs, previewLocals, batchLocals, routerLocals, limiterLocals, syncLocals, refs, commits, idx, error, outcome,
                    stagingExists, stagingSha, productionCommit,
                    rebaseCommit, mergeBase, stagingCommits,
                    currentParentSha, commitDetails >>

\* GET the staging ref and return when it is production's SHA.
SquashGetStagingRef ==
    /\ SquashRebase /\ pc = "getStagingRef"
    /\ IssueSquash(TRUE)
    /\ stagingSha' = refs.staging
    /\ IF AlreadyUpToDate(stagingSha', productionSha)
       THEN Return("upToDate")
       ELSE pc' = "getProductionCommit" /\ UNCHANGED outcome
    /\ UNCHANGED << inputs, previewLocals, batchLocals, routerLocals, limiterLocals, syncLocals, refs, commits, idx, error,
                    stagingExists, productionSha, productionCommit,
                    rebaseCommit, mergeBase, stagingCommits,
                    currentParentSha, commitDetails >>

SquashGetProductionCommit ==
    /\ SquashRebase /\ pc = "getProductionCommit"
    /\ IssueSquash(TRUE)
    /\ productionCommit' = GetCommit(productionSha)
    /\ pc' = "createRebaseCommit"
    /\ UNCHANGED << inputs, previewLocals, batchLocals, routerLocals, limiterLocals, syncLocals, refs, commits, idx, error, outcome,
                    stagingExists, productionSha, stagingSha,
                    rebaseCommit, mergeBase, stagingCommits,
                    currentParentSha, commitDetails >>

SquashCreateRebaseCommit ==
    /\ SquashRebase /\ pc = "createRebaseCommit"
    /\ IssueSquash(TRUE)
    /\ commits' = CreateCommit(RebaseMessage(productionSha),
                               productionCommit.tree, << productionSha >>)
    /\ rebaseCommit' = Len(commits) + 1
    /\ pc' = "updateStagingRef"
    /\ UNCHANGED << inputs, previewLocals, batchLocals, routerLocals, limiterLocals, syncLocals, refs, idx, error, outcome,
                    stagingExists, productionSha, stagingSha,
                    productionCommit, mergeBase, stagingCommits,
                    currentParentSha, commitDetails >>

\* PATCH the staging ref with force: the platform moves it anywhere.
SquashUpdateStagingRef ==
    /\ SquashRebase /\ pc = "updateStagingRef"
    /\ IssueSquash(RebaseForce \/ IsFastForward(refs.staging, rebaseCommit))
    /\ IF RebaseForce \/ IsFastForward(refs.staging, rebaseCommit)
       THEN /\ refs' = [refs EXCEPT !.staging = rebaseCommit]
            /\ Return("rebased")
            /\ UNCHANGED error
       ELSE /\ error' = [status |-> 422, hasMessage |-> TRUE,
                         message |-> msgValidation]
            /\ Return("threw")
            /\ UNCHANGED refs
    /\ UNCHANGED << inputs, previewLocals, batchLocals, routerLocals, limiterLocals, syncLocals, commits, idx, rebaseLocals >>

\* A request is rejected: 404 on the first lookup is a silent return, every
\* other error is logged and raised again.
SquashRequestFails ==
    /\ SquashRebase /\ pc \in SquashPcs
    /\ \E e \in Errors :
        /\ IssueSquash(FALSE)
        /\ error' = e
        /\ IF pc = "checkStaging" /\ BranchNotFound(e)
           THEN Return("noStaging")
           ELSE Return("threw")
    /\ UNCHANGED << inputs, previewLocals, batchLocals, routerLocals, limiterLocals, syncLocals, refs, commits, idx, rebaseLocals >>

-----------------------------------------------------------------------------
\* updateStagingOnProductionPush, ordered-replay variant.

\* mergeBase.data.commits.reverse()
ChronologicalOrder(seq) == Reverse(seq)

\* mergeBaseSha === productionSha
TakesShortCircuit(mergeBaseSha, production, staging) ==
    mergeBaseSha = production

ReplayPcs ==
    { "checkStaging", "getProductionRef", "getStagingRef", "compare",
      "fastForward", "getCommit", "createCommit", "updateStagingRef" }

CurrentRequestReplay(ok) ==
    CASE pc = "checkStaging"     -> Req("getRef", "staging", ok)
      [] pc = "getProductionRef" -> Req("getRef", "production", ok)
      [] pc = "getStagingRef"    -> Req("getRef", "staging", ok)
      [] pc = "compare"          ->
             Req("compare", [base |-> "production", head |-> "staging"], ok)
      [] pc = "fastForward"      ->
             Req("updateRef",
                 [ref |-> "staging", sha |-> productionSha,
                  force |-> FALSE], ok)
      [] pc = "getCommit"        ->
             Req("getCommit", stagingCommits[idx], ok)
      [] pc = "createCommit"     ->
             Req("createCommit",
                 [message |-> commitDetails.message,
                  tree |-> commitDetails.tree,
                  parents |-> << currentParentSha >>], ok)
      [] pc = "updateStagingRef" ->
             Req("updateRef",
                 [ref |-> "staging", sha |-> currentParentSha,
                  force |-> RebaseForce], ok)

IssueReplay(ok) == log' = Append(log, CurrentRequestReplay(ok))

ReplayCheckStaging ==
    /\ ReplayRebase /\ pc = "checkStaging"
    /\ refs.staging # null
    /\ IssueReplay(TRUE)
    /\ stagingExists' = TRUE
    /\ pc' = "getProductionRef"
    /\ UNCHANGED << inputs, previewLocals, batchLocals, routerLocals, limiterLocals, syncLocals, refs, commits, idx, error, outcome,
                    productionSha, stagingSha, productionCommit,
                    rebaseCommit, mergeBase, stagingCommits,
                    currentParentSha, commitDetails >>

ReplayGetProductionRef ==
    /\ ReplayRebase /\ pc = "getProductionRef"
    /\ IssueReplay(TRUE)
    /\ productionSha' = refs.production
    /\ pc' = "getStagingRef"
    /\ UNCHANGED << inputs, previewLocals, batchLocals, routerLocals, limiterLocals, syncLocals, refs, commits, idx, error, outcome,
                    stagingExists, stagingSha, productionCommit,
                    rebaseCommit, mergeBase, stagingCommits,
                    currentParentSha, commitDetails >>

ReplayGetStagingRef ==
    /\ ReplayRebase /\ pc = "getStagingRef"
    /\ IssueReplay(TRUE)
    /\ stagingSha' = refs.staging
    /\ IF AlreadyUpToDate(stagingSha', productionSha)
       THEN Return("upToDate")
       ELSE pc' = "compare" /\ UNCHANGED outcome
    /\ UNCHANGED << inputs, previewLocals, batchLocals, routerLocals, limiterLocals, syncLocals, refs, commits, idx, error,
                    stagingExists, productionSha, productionCommit,
                    rebaseCommit, mergeBase, stagingCommits,
                    currentParentSha, commitDetails >>

\* GET the comparison; then the short-circuit, the return for an empty list,
\* or the start of the replay loop.
ReplayCompare ==
    /\ ReplayRebase /\ pc = "compare"
    /\ IssueReplay(TRUE)
    /\ mergeBase' = Compare("production", "staging")
    /\ IF TakesShortCircuit(mergeBase'.merge_base_commit, productionSha,
                            stagingSha)
       THEN /\ pc' = "fastForward"
            /\ UNCHANGED << stagingCommits, currentParentSha, idx, outcome >>
       ELSE /\ stagingCommits' = ChronologicalOrder(mergeBase'.commits)
            /\ IF Len(stagingCommits') = 0
               THEN Return("noCommits") /\ UNCHANGED << currentParentSha, idx >>
               ELSE /\ currentParentSha' = productionSha
                    /\ idx' = 1
                    /\ pc' = "getCommit"
                    /\ UNCHANGED outcome
    /\ UNCHANGED << inputs, previewLocals, batchLocals, routerLocals, limiterLocals, syncLocals, refs, commits, error,
                    stagingExists, productionSha, stagingSha,
                    productionCommit, rebaseCommit, commitDetails >>

\* PATCH the staging ref to production's SHA without force: the platform
\* accepts a fast-forward and rejects anything else with 422.
ReplayFastForward ==
    /\ ReplayRebase /\ pc = "fastForward"
    /\ IssueReplay(IsFastForward(refs.staging, productionSha))
    /\ IF IsFastForward(refs.staging, productionSha)
       THEN /\ refs' = [refs EXCEPT !.staging = productionSha]
            /\ Return("fastForwarded")
            /\ UNCHANGED error
       ELSE /\ error' = [status |-> 422, hasMessage |-> TRUE,
                         message |-> msgValidation]
            /\ Return("threw")
            /\ UNCHANGED refs
    /\ UNCHANGED << inputs, previewLocals, batchLocals, routerLocals, limiterLocals, syncLocals, commits, idx, rebaseLocals >>

ReplayGetCommit ==
    /\ ReplayRebase /\ pc = "getCommit"
    /\ IssueReplay(TRUE)
    /\ commitDetails' = GetCommit(stagingCommits[idx])
    /\ pc' = "createCommit"
    /\ UNCHANGED << inputs, previewLocals, batchLocals, routerLocals, limiterLocals, syncLocals, refs, commits, idx, error, outcome,
                    stagingExists, productionSha, stagingSha,
                    productionCommit, rebaseCommit, mergeBase,
                    stagingCommits, currentParentSha >>

\* POST the replayed commit and go on with the loop.
ReplayCreateCommit ==
    /\ ReplayRebase /\ pc = "createCommit"
    /\ IssueReplay(TRUE)
    /\ commits' = CreateCommit(commitDetails.message, commitDetails.tree,
                               << currentParentSha >>)
    /\ currentParentSha' = Len(commits) + 1
    /\ IF idx < Len(stagingCommits)
       THEN idx' = idx + 1 /\ pc' = "getCommit"
       ELSE pc' = "updateStagingRef" /\ UNCHANGED idx
    /\ UNCHANGED << inputs, previewLocals, batchLocals, routerLocals, limiterLocals, syncLocals, refs, error, outcome,
                    stagingExists, productionSha, stagingSha,
                    productionCommit, rebaseCommit, mergeBase,
                    stagingCommits, commitDetails >>

ReplayUpdateStagingRef ==
    /\ ReplayRebase /\ pc = "updateStagingRef"
    /\ IssueReplay(RebaseForce \/ IsFastForward(refs.staging, currentParentSha))
    /\ IF RebaseForce \/ IsFastForward(refs.staging, currentParentSha)
       THEN /\ refs' = [refs EXCEPT !.staging = currentParentSha]
            /\ Return("rebased")
            /\ UNCHANGED error
       ELSE /\ error' = [status |-> 422, hasMessage |-> TRUE,
                         message |-> msgValidation]
            /\ Return("threw")
            /\ UNCHANGED refs
    /\ UNCHANGED << inputs, previewLocals, batchLocals, routerLocals, limiterLocals, syncLocals, commits, idx, rebaseLocals >>

ReplayRequestFails ==
    /\ ReplayRebase /\ pc \in ReplayPcs
    /\ \E e \in Errors :
        /\ IssueReplay(FALSE)
        /\ error' = e
        /\ IF pc = "checkStaging" /\ BranchNotFound(e)
           THEN Return("noStaging")
           ELSE Return("threw")
    /\ UNCHANGED << inputs, previewLocals, batchLocals, routerLocals, limiterLocals, syncLocals, refs, commits, idx, rebaseLocals >>

-----------------------------------------------------------------------------
\* The repositories the rebase is invoked on.

\* The trees of the commits: one file, absent or with any blob SHA.
RebaseTrees == TreesOver({pAssetsA})

OriginalMessage(i) == [kind |-> "original", text |-> i]

\* Commit 1 is the common root; production has a commits on top of it, then
\* staging has b commits on top of the root.
History(a, b, treeOf) ==
    [i \in 1 .. 1 + a + b |->
        [tree |-> treeOf[i],
         parents |-> IF i = 1 THEN << >>
                     ELSE IF i = 2 + a THEN << 1 >>
                     ELSE << i - 1 >>,
         message |-> OriginalMessage(i)]]

\* production is pushed; staging is missing, equal, behind, ahead or diverged.
InitRebaseRepo ==
    \E a \in 0 .. MaxAhead, b \in 0 .. MaxUnique, missing \in BOOLEAN :
      \E treeOf \in [1 .. 1 + a + b -> RebaseTrees] :
        /\ missing => b = 0
        /\ commits = History(a, b, treeOf)
        /\ refs = [production |-> 1 + a,
                   staging |-> IF missing THEN null
                               ELSE IF b = 0 THEN 1 ELSE 1 + a + b]
        /\ startRefs = refs

InitRebase(variant) ==
    /\ op = variant
    /\ run = 1
    /\ parent = "staging"
    /\ includeJsonFiles = FALSE
    /\ InitRebaseRepo
    /\ InitLocals
    /\ pc = "checkStaging"

InitSquash == InitRebase("updateStagingOnProductionPush:squash")

NextSquash ==
    \/ SquashCheckStaging \/ SquashGetProductionRef \/ SquashGetStagingRef
    \/ SquashGetProductionCommit \/ SquashCreateRebaseCommit
    \/ SquashUpdateStagingRef \/ SquashRequestFails

SpecSquash == InitSquash /\ [][NextSquash]_vars

InitReplay == InitRebase("updateStagingOnProductionPush:replay")

NextReplay ==
    \/ ReplayCheckStaging \/ ReplayGetProductionRef \/ ReplayGetStagingRef
    \/ ReplayCompare \/ ReplayFastForward \/ ReplayGetCommit
    \/ ReplayCreateCommit \/ ReplayUpdateStagingRef \/ ReplayRequestFails

SpecReplay == InitReplay /\ [][NextReplay]_vars

\* Either variant of the rebase.
InitEitherRebase == InitSquash \/ InitReplay

NextEitherRebase == NextSquash \/ NextReplay

SpecRebase == InitEitherRebase /\ [][NextEitherRebase]_vars

\* Any of the operations on branches.
InitAny == InitBoth \/ InitEitherRebase

NextAny == NextBoth \/ NextEitherRebase

SpecAny == InitAny /\ [][NextAny]_vars

-----------------------------------------------------------------------------
\* rateLimitedRequest: the errors of requestFn and their classification.

\* String.prototype.toLowerCase, on the capitals the messages hold.
LowerChar(c) ==
    CASE c = "A" -> "a" [] c = "D" -> "d" [] c = "E" -> "e"
      [] c = "F" -> "f" [] c = "H" -> "h" [] c = "I" -> "i"
      [] c = "L" -> "l" [] c = "M" -> "m" [] c = "P" -> "p"
      [] c = "R" -> "r" [] c = "S" -> "s" [] c = "U" -> "u"
      [] c = "W" -> "w" [] OTHER -> c

toLowerCase(str) == [i \in 1 .. Len(str) |-> LowerChar(str[i])]

secondaryRateLimit ==
    << "s", "e", "c", "o", "n", "d", "a", "r", "y", " ", "r", "a",
       "t", "e", " ", "l", "i", "m", "i", "t" >>

abuseDetection ==
    << "a", "b", "u", "s", "e", " ", "d", "e", "t", "e", "c", "t",
       "i", "o", "n" >>

rateLimitExceeded ==
    << "r", "a", "t", "e", " ", "l", "i", "m", "i", "t", " ", "e",
       "x", "c", "e", "e", "d", "e", "d" >>

msgSecondary ==
    << "S", "e", "c", "o", "n", "d", "a", "r", "y", " ", "R", "a",
       "t", "e", " ", "L", "i", "m", "i", "t" >>

msgAbuse ==
    << "A", "b", "u", "s", "e", " ", "D", "e", "t", "e", "c", "t",
       "i", "o", "n" >>

msgExceeded ==
    << "A", "P", "I", " ", "r", "a", "t", "e", " ", "l", "i", "m",
       "i", "t", " ", "e", "x", "c", "e", "e", "d", "e", "d" >>

msgServerError ==
    << "S", "e", "r", "v", "e", "r", " ", "E", "r", "r", "o", "r" >>

\* Header values are strings; << >> stands for a header that is not there.
noHeader == << >>

\* The value parseInt gives for a string without leading digits: no string
\* of the model parses to a negative number.
NaN == -1

Digit(c) ==
    CASE c = "0" -> 0 [] c = "1" -> 1 [] c = "2" -> 2 [] c = "3" -> 3
      [] c = "4" -> 4 [] c = "5" -> 5 [] c = "6" -> 6 [] c = "7" -> 7
      [] c = "8" -> 8 [] c = "9" -> 9 [] OTHER -> -1

RECURSIVE ParseDigits(_, _, _)
ParseDigits(str, i, acc) ==
    IF i > Len(str) \/ Digit(str[i]) < 0 THEN acc
    ELSE ParseDigits(str, i + 1, 10 * acc + Digit(str[i]))

\* parseInt(str, 10) for strings without sign or leading blanks.
parseInt(str) ==
    IF Len(str) = 0 \/ Digit(str[1]) < 0 THEN NaN
    ELSE ParseDigits(str, 1, 0)

\* (error.message || '')
MessageOrEmpty(e) == IF e.hasMessage THEN e.message ELSE << >>

isSecondaryRateLimitError(e) ==
    LET errorMessage == toLowerCase(MessageOrEmpty(e))
    IN  /\ e.status = 403 \/ e.status = 429
        /\ \/ Includes(errorMessage, secondaryRateLimit)
           \/ Includes(errorMessage, abuseDetection)
           \/ Includes(errorMessage, rateLimitExceeded)

isRateLimitError(e) ==
    \/ isSecondaryRateLimitError(e)
    \/ /\ e.status = 403 \/ e.status = 429
       /\ e.remaining = << "0" >>

\* The number of ms to wait that the headers suggest, null without one.
getRetryAfter(e, clock) ==
    IF Len(e.retryAfter) > 0
    THEN IF parseInt(e.retryAfter) = NaN THEN NaN
         ELSE parseInt(e.retryAfter) * 1000
    ELSE IF Len(e.reset) > 0 /\ parseInt(e.reset) # NaN
                             /\ parseInt(e.reset) * 1000 - clock > 0
         THEN parseInt(e.reset) * 1000 - clock
         ELSE null

\* retryAfter && retryAfter > 0
Usable(retryAfter) ==
    retryAfter # null /\ retryAfter # NaN /\ retryAfter > 0

Min(a, b) == IF a < b THEN a ELSE b

Max(a, b) == IF a > b THEN a ELSE b

RECURSIVE Pow2(_)
\* Math.pow(2, n)
Pow2(n) == IF n = 0 THEN 1 ELSE 2 * Pow2(n - 1)

\* A slip: the first attempt waits the 100 ms it once did.
SpacingDelayHundred(att, opts) ==
    IF att > 0
    THEN Min(opts.baseDelay * Pow2(att - 1), opts.maxDelay)
    ELSE 100

\* The sleep at the top of the loop body.
SpacingDelay(att, opts) ==
    IF att > 0
    THEN Min(opts.baseDelay * Pow2(att - 1), opts.maxDelay)
    ELSE 50

\* A slip: the backoff has no floor.
BackoffDelayNoFloor(e, att, opts) ==
    Min(opts.baseDelay * Pow2(att), opts.maxDelay)

\* The sleep after a rate-limit failure that carries no usable hint.
BackoffDelay(e, att, opts) ==
    LET minWaitTime == IF isSecondaryRateLimitError(e) THEN 60000
                       ELSE opts.baseDelay
        exponentialDelay == Min(opts.baseDelay * Pow2(att), opts.maxDelay)
    IN  Max(minWaitTime, exponentialDelay)

LimiterError(status, hasMessage, message, remaining, retryAfter, reset) ==
    [status |-> status, hasMessage |-> hasMessage, message |-> message,
     remaining |-> remaining, retryAfter |-> retryAfter, reset |-> reset]

\* The clock when rateLimitedRequest is called, in ms.
StartTime == 100000

\* x-ratelimit-reset values, in seconds: one after StartTime, one before.
resetLater == << "1", "6", "0" >>

resetEarlier == << "5", "0" >>

\* The values requestFn can be rejected with: status 0 stands for none.
LimiterErrors ==
    { LimiterError(500, TRUE, msgServerError, noHeader, noHeader, noHeader),
      LimiterError(0, FALSE, << >>, noHeader, noHeader, noHeader),
      LimiterError(0, TRUE, msgSecondary, << "0" >>, << "2" >>, noHeader),
      LimiterError(403, TRUE, msgServerError, << "5" >>, noHeader, noHeader),
      LimiterError(403, FALSE, << >>, << "0" >>, noHeader, noHeader),
      LimiterError(429, TRUE, msgServerError, << "0" >>, noHeader, resetLater),
      LimiterError(429, TRUE, msgServerError, << "0" >>, noHeader,
                   resetEarlier),
      LimiterError(403, TRUE, msgSecondary, noHeader, noHeader, noHeader),
      LimiterError(429, TRUE, msgAbuse, noHeader, << "2" >>, noHeader),
      LimiterError(403, TRUE, msgExceeded, noHeader, << "0" >>, noHeader),
      LimiterError(403, TRUE, msgExceeded, << "0" >>, << "x" >>, resetLater),
      LimiterError(429, TRUE, msgServerError, << "0" >>, << "0" >>,
                   resetLater) }

-----------------------------------------------------------------------------
\* rateLimitedRequest: one action per await.

Limiter == op = "rateLimitedRequest"

\* The locals of the operations on branches.
branchLocals == << syncLocals, rebaseLocals, refs, commits, idx >>

\* A slip: the loop goes round once more.
LoopGoesOnOneMore(att, opts) == att <= opts.maxRetries + 1

\* while (attempt <= maxRetries)
LoopGoesOn(att, opts) == att <= opts.maxRetries

\* The sleep at the top of the loop body.
LimiterSleepBefore ==
    /\ Limiter /\ pc = "top"
    /\ LoopGoesOn(attempt, options)
    /\ LET d == SpacingDelay(attempt, options)
       IN  /\ log' = Append(log, Req("sleep", d, TRUE))
           /\ now' = now + d
    /\ pc' = "call"
    /\ UNCHANGED << inputs, previewLocals, batchLocals, routerLocals, branchLocals, options, attempt, lastError, delay,
                    response, error, outcome >>

\* The loop has ended: throw lastError.
LimiterThrowsLast ==
    /\ Limiter /\ pc = "top"
    /\ ~LoopGoesOn(attempt, options)
    /\ error' = lastError
    /\ Return("raised")
    /\ UNCHANGED << inputs, previewLocals, batchLocals, routerLocals, branchLocals, limiterLocals, log >>

\* The values requestFn can answer with.
Responses == { [data |-> "one"], [data |-> "other"] }

\* requestFn answers: the response is returned.
LimiterCallReturns ==
    /\ Limiter /\ pc = "call"
    /\ \E v \in Responses :
          /\ log' = Append(log, Req("requestFn", v, TRUE))
          /\ response' = v
    /\ Return("returned")
    /\ UNCHANGED << inputs, previewLocals, batchLocals, routerLocals, branchLocals, options, attempt, lastError, delay,
                    now, error >>

\* A slip: every error is retried.
RetryEverything(e) == TRUE

\* isRateLimitError(error), as the catch block asks.
Retryable(e) == isRateLimitError(e)

\* A slip: the last retry is given up.
RetriesLeftButOne(att, opts) == att < opts.maxRetries - 1

\* attempt < maxRetries, as the catch block asks before its backoff.
RetriesLeft(att, opts) == att < opts.maxRetries

\* requestFn is rejected: the catch block runs up to its sleep or its throw.
LimiterCallFails ==
    /\ Limiter /\ pc = "call"
    /\ \E e \in LimiterErrors :
        /\ log' = Append(log, Req("requestFn", e, FALSE))
        /\ lastError' = e
        /\ IF Retryable(e)
           THEN LET retryAfter == getRetryAfter(e, now)
                IN  IF Usable(retryAfter)
                    THEN /\ delay' = retryAfter
                         /\ pc' = "wait"
                         /\ UNCHANGED << error, outcome >>
                    ELSE IF RetriesLeft(attempt, options)
                    THEN /\ delay' = BackoffDelay(e, attempt, options)
                         /\ pc' = "wait"
                         /\ UNCHANGED << error, outcome >>
                    ELSE /\ error' = e
                         /\ Return("raised")
                         /\ UNCHANGED delay
           ELSE /\ error' = e
                /\ Return("raised")
                /\ UNCHANGED delay
    /\ UNCHANGED << inputs, previewLocals, batchLocals, routerLocals, branchLocals, options, attempt, now, response >>

\* The sleep of the catch block ends: attempt++.
LimiterSleepAfter ==
    /\ Limiter /\ pc = "wait"
    /\ log' = Append(log, Req("sleep", delay, TRUE))
    /\ now' = now + delay
    /\ attempt' = attempt + 1
    /\ pc' = "top"
    /\ UNCHANGED << inputs, previewLocals, batchLocals, routerLocals, branchLocals, options, lastError, delay, response,
                    error, outcome >>

InitLimiter ==
    /\ op = "rateLimitedRequest"
    /\ run = 1 /\ parent = "staging" /\ includeJsonFiles = FALSE
    /\ refs = << >> /\ startRefs = << >> /\ commits = << >>
    /\ sgcSha = 0 /\ parentSha = 0
    /\ sgcFiles = << >> /\ shopifyFiles = << >> /\ parentFiles = << >>
    /\ treeUpdates = << >>
    /\ filesUpdated = 0 /\ filesAdded = 0 /\ filesDeleted = 0
    /\ blobsToFetch = << >> /\ idx = 0 /\ blob = << >>
    /\ newTree = << >> /\ newCommit = 0
    /\ error = noError /\ outcome = "running" /\ log = << >>
    /\ stagingExists = FALSE /\ productionSha = 0 /\ stagingSha = 0
    /\ productionCommit = << >> /\ rebaseCommit = 0 /\ mergeBase = << >>
    /\ stagingCommits = << >> /\ currentParentSha = 0
    /\ commitDetails = << >>
    /\ \E m \in 0 .. MaxRetriesTried, cap \in {1500, 60000} :
          options = [maxRetries |-> m, baseDelay |-> 1000, maxDelay |-> cap]
    /\ attempt = 0 /\ lastError = << >> /\ delay = 0
    /\ now = StartTime /\ response = << >>
    /\ items = << >> /\ batchOptions = << >>
    /\ batchI = 0 /\ batchJ = 0 /\ results = << >>
    /\ NoPreview
    /\ event = << >>
    /\ pc = "top"

NextLimiter ==
    \/ LimiterSleepBefore \/ LimiterThrowsLast \/ LimiterCallReturns
    \/ LimiterCallFails \/ LimiterSleepAfter

SpecLimiter == InitLimiter /\ [][NextLimiter]_vars

-----------------------------------------------------------------------------
\* batchProcess: one action per await.

BatchProcess == op = "batchProcess"

\* Largest number of items tried.
MaxItems == 25

\* The batch sizes tried: the default, 10, is the one part_001 passes.
BatchSizes == {1, 2, 3, 10}

\* items.slice(a, b), positions counted from 0
Slice(seq, a, b) == SubSeq(seq, a + 1, Min(b, Len(seq)))

\* const batch = items.slice(i, i + batchSize)
BatchAt(i) == Slice(items, i, i + batchOptions.batchSize)

\* A slip: the index within the batch is taken for the index of the item.
ItemIndexInBatch(i, j) == j

\* const index = i + j
ItemIndex(i, j) == i + j

\* What the processor answers for an item.
ResultOf(item) == [processed |-> item]

\* The values the processor can be rejected with.
ProcessorErrors ==
    { [status |-> 500, message |-> msgServerError],
      [status |-> 422, message |-> msgValidation] }

\* A slip: a sleep follows the last item of a batch too.
ItemSleepAfterEach(j, batch) == j < Len(batch)

\* if (j < batch.length - 1)
ItemSleepDue(j, batch) == j < Len(batch) - 1

\* if (i + batchSize < items.length)
BatchSleepDue(i, opts, its) == i + opts.batchSize < Len(its)

\* A slip: the processor is called without await.
FiresProcessor == FALSE

\* await processor(item, index)
AwaitsProcessor == TRUE

\* A slip: the error of an item is logged and the loop goes on.
SwallowsError == FALSE

\* throw error, in the catch block of the inner loop
Rethrows == TRUE

\* The test of the outer loop with i: the first item of the batch is next,
\* or batchProcess returns its results.
OuterLoop(i) ==
    /\ batchI' = i /\ batchJ' = 0
    /\ IF i < Len(items)
       THEN pc' = "call" /\ UNCHANGED << response, outcome >>
       ELSE response' = results' /\ Return("returned")

\* The test of the inner loop with j: the item is next, or the batch is over.
InnerLoop(j) ==
    IF j < Len(BatchAt(batchI))
    THEN /\ batchJ' = j /\ pc' = "call"
         /\ UNCHANGED << batchI, response, outcome >>
    ELSE IF BatchSleepDue(batchI, batchOptions, items)
    THEN /\ batchJ' = j /\ pc' = "sleepBatch"
         /\ UNCHANGED << batchI, response, outcome >>
    ELSE OuterLoop(batchI + batchOptions.batchSize)

\* From the end of an item up to the next await or to the return.
AfterItem ==
    IF ItemSleepDue(batchJ, BatchAt(batchI))
    THEN pc' = "sleepItem" /\ UNCHANGED << batchI, batchJ, response, outcome >>
    ELSE InnerLoop(batchJ + 1)

\* Entry: with no item the outer loop does not run.
BatchEnter ==
    /\ BatchProcess /\ pc = "enter"
    /\ UNCHANGED << inputs, previewLocals, routerLocals, branchLocals, options, attempt, lastError, delay,
                    now, items, batchOptions, results, error, log >>
    /\ OuterLoop(0)

\* processor(item, index) is called.
BatchCallProcessor ==
    /\ BatchProcess /\ pc = "call"
    /\ LET index == ItemIndex(batchI, batchJ)
       IN  log' = Append(log, Req("processor",
                                  [item |-> items[index + 1], index |-> index],
                                  TRUE))
    /\ UNCHANGED << inputs, previewLocals, routerLocals, branchLocals, options, attempt, lastError, delay,
                    now, items, batchOptions, results, error >>
    /\ IF AwaitsProcessor
       THEN pc' = "await" /\ UNCHANGED << batchI, batchJ, response, outcome >>
       ELSE AfterItem

\* The processor answers: results.push(result).
BatchProcessorReturns ==
    /\ BatchProcess /\ pc = "await"
    /\ LET index == ItemIndex(batchI, batchJ)
       IN  /\ log' = Append(log, Req("settled", index, TRUE))
           /\ results' = Append(results, ResultOf(items[index + 1]))
    /\ AfterItem
    /\ UNCHANGED << inputs, previewLocals, routerLocals, branchLocals, options, attempt, lastError, delay,
                    now, items, batchOptions, error >>

\* The processor is rejected: the catch block of the inner loop runs.
BatchProcessorFails ==
    /\ BatchProcess /\ pc = "await"
    /\ \E e \in ProcessorErrors :
          /\ log' = Append(log, Req("settled", ItemIndex(batchI, batchJ), FALSE))
          /\ IF Rethrows
             THEN /\ error' = e
                  /\ Return("raised")
                  /\ UNCHANGED << batchI, batchJ, response, results >>
             ELSE /\ results' = results
                  /\ AfterItem
                  /\ UNCHANGED error
    /\ UNCHANGED << inputs, previewLocals, routerLocals, branchLocals, options, attempt, lastError, delay,
                    now, items, batchOptions >>

\* await sleep(delayBetweenItems); j++
BatchSleepBetweenItems ==
    /\ BatchProcess /\ pc = "sleepItem"
    /\ log' = Append(log, Req("sleepBetweenItems",
                              batchOptions.delayBetweenItems, TRUE))
    /\ UNCHANGED << inputs, previewLocals, routerLocals, branchLocals, options, attempt, lastError, delay,
                    now, items, batchOptions, results, error >>
    /\ InnerLoop(batchJ + 1)

\* await sleep(delayBetweenBatches); i += batchSize
BatchSleepBetweenBatches ==
    /\ BatchProcess /\ pc = "sleepBatch"
    /\ log' = Append(log, Req("sleepBetweenBatches",
                              batchOptions.delayBetweenBatches, TRUE))
    /\ UNCHANGED << inputs, previewLocals, routerLocals, branchLocals, options, attempt, lastError, delay,
                    now, items, batchOptions, results, error >>
    /\ OuterLoop(batchI + batchOptions.batchSize)

InitBatch ==
    /\ op = "batchProcess"
    /\ run = 1 /\ parent = "staging" /\ includeJsonFiles = FALSE
    /\ refs = << >> /\ startRefs = << >> /\ commits = << >>
    /\ sgcSha = 0 /\ parentSha = 0
    /\ sgcFiles = << >> /\ shopifyFiles = << >> /\ parentFiles = << >>
    /\ treeUpdates = << >>
    /\ filesUpdated = 0 /\ filesAdded = 0 /\ filesDeleted = 0
    /\ blobsToFetch = << >> /\ idx = 0 /\ blob = << >>
    /\ newTree = << >> /\ newCommit = 0
    /\ error = noError /\ outcome = "running" /\ log = << >>
    /\ stagingExists = FALSE /\ productionSha = 0 /\ stagingSha = 0
    /\ productionCommit = << >> /\ rebaseCommit = 0 /\ mergeBase = << >>
    /\ stagingCommits = << >> /\ currentParentSha = 0
    /\ commitDetails = << >>
    /\ options = << >> /\ attempt = 0 /\ lastError = << >>
    /\ delay = 0 /\ now = 0 /\ response = << >>
    /\ \E n \in 0 .. MaxItems : items = [k \in 1 .. n |-> 100 + k]
    /\ \E b \in BatchSizes :
          batchOptions = [batchSize |-> b, delayBetweenBatches |-> 500,
                          delayBetweenItems |-> 75]
    /\ batchI = 0 /\ batchJ = 0 /\ results = << >>
    /\ NoPreview
    /\ event = << >>
    /\ pc = "enter"

NextBatch ==
    \/ BatchEnter \/ BatchCallProcessor \/ BatchProcessorReturns
    \/ BatchProcessorFails \/ BatchSleepBetweenItems
    \/ BatchSleepBetweenBatches

SpecBatch == InitBatch /\ [][NextBatch]_vars

\* Every processor call is settled and every sleep ends: each step of
\* batchProcess that can be taken is taken.
FairSpecBatch == SpecBatch /\ WF_vars(NextBatch)

\* batchProcess on its own and inside updateParentOnSGCPush.
InitBatchOrSync == InitBatch \/ Init

NextBatchOrSync == NextBatch \/ Next

SpecBatchOrSync == InitBatchOrSync /\ [][NextBatchOrSync]_vars

-----------------------------------------------------------------------------
\* The push router of part_005 and the push events the operations cause.

Router == op = "pushRouter"

\* Largest number of operations one chain of push events may trigger.
MaxHops == 6

updateFromShopify ==
    << "u", "p", "d", "a", "t", "e", " ", "f", "r", "o", "m", " ", "s", "h",
       "o", "p", "i", "f", "y" >>

mergePullRequest ==
    << "m", "e", "r", "g", "e", " ", "p", "u", "l", "l", " ", "r", "e", "q",
       "u", "e", "s", "t" >>

syncHorizon ==
    << "/", "s", "y", "n", "c", "/", "h", "o", "r", "i", "z", "o", "n" >>

slashStaging ==
    << "/", "s", "t", "a", "g", "i", "n", "g" >>

syncFilesFromSgcProduction ==
    << "s", "y", "n", "c", " ", "f", "i", "l", "e", "s", " ", "f", "r", "o",
       "m", " ", "s", "g", "c", "-", "p", "r", "o", "d", "u", "c", "t", "i",
       "o", "n" >>

\* The name of a parent branch, as text.
BranchText(par) ==
    IF par = "production"
    THEN
         << "p", "r", "o", "d", "u", "c", "t", "i", "o", "n" >>
    ELSE
         << "s", "t", "a", "g", "i", "n", "g" >>

\* `${n}` for a count below ten
NumberText(n) ==
    << CASE n = 0 -> "0" [] n = 1 -> "1" [] n = 2 -> "2" [] n = 3 -> "3"
         [] n = 4 -> "4" [] n = 5 -> "5" [] n = 6 -> "6" [] n = 7 -> "7"
         [] n = 8 -> "8" [] OTHER -> "9" >>

RECURSIVE Join(_, _)
\* Array.prototype.join
Join(parts, sep) ==
    IF Len(parts) = 0 THEN << >>
    ELSE IF Len(parts) = 1 THEN parts[1]
    ELSE parts[1] \o sep \o Join(Tail(parts), sep)

\* commitParts of updateParentOnSGCPush
CommitParts(a, u, d) ==
    (IF a > 0 THEN << NumberText(a) \o
                        << " ", "a", "d", "d", "e", "d" >> >>
     ELSE << >>)
    \o (IF u > 0 THEN << NumberText(u) \o
                           << " ", "u", "p", "d", "a", "t", "e", "d" >> >>
        ELSE << >>)
    \o (IF d > 0 THEN << NumberText(d) \o
                           << " ", "d", "e", "l", "e", "t", "e", "d" >> >>
        ELSE << >>)

\* `Sync files from sgc-${parent} (${commitParts.join(', ')})`
SyncText(par, a, u, d) ==
    << "S", "y", "n", "c", " ", "f", "i", "l", "e", "s", " ", "f", "r", "o",
       "m", " ", "s", "g", "c", "-" >>
    \o BranchText(par) \o << " ", "(" >>
    \o Join(CommitParts(a, u, d), << ",", " " >>) \o << ")" >>

\* `Merge sgc-${parent} into ${parent}`
MergeText(par) ==
    << "M", "e", "r", "g", "e", " ", "s", "g", "c", "-" >>
    \o BranchText(par) \o
    << " ", "i", "n", "t", "o", " " >>
    \o BranchText(par)

\* `Sync Shopify files from ${parent} (${a} added, ${u} updated)`
SyncTextSGC(par, a, u) ==
    << "S", "y", "n", "c", " ", "S", "h", "o", "p", "i", "f", "y", " ", "f",
       "i", "l", "e", "s", " ", "f", "r", "o", "m", " " >>
    \o BranchText(par) \o << " ", "(" >> \o NumberText(a) \o
    << " ", "a", "d", "d", "e", "d", ",", " " >>
    \o NumberText(u) \o
    << " ", "u", "p", "d", "a", "t", "e", "d", ")" >>

\* `Merge ${parent} into sgc-${parent} (fallback from Shopify sync)`
MergeTextSGC(par) ==
    << "M", "e", "r", "g", "e", " " >>
    \o BranchText(par) \o
    << " ", "i", "n", "t", "o", " ", "s", "g", "c", "-" >>
    \o BranchText(par) \o
    << " ", "(", "f", "a", "l", "l", "b", "a", "c", "k", " ", "f", "r", "o",
       "m", " ", "S", "h", "o", "p", "i", "f", "y", " ", "s", "y", "n", "c",
       ")" >>

\* `Rebase staging onto production (${productionSha.slice(0, 7)})`
RebaseText ==
    << "R", "e", "b", "a", "s", "e", " ", "s", "t", "a", "g", "i", "n", "g",
       " ", "o", "n", "t", "o", " ", "p", "r", "o", "d", "u", "c", "t", "i",
       "o", "n", " ", "(", "0", "a", "1", "b", "2", "c", "3", ")" >>

\* Messages of commits pushed from outside: the theme editor's, pull request
\* merges, a hand-written one, one that imitates a sync commit, and none.
ExternalMessages ==
    {
      << "U", "p", "d", "a", "t", "e", " ", "f", "r", "o", "m", " ", "S",
         "h", "o", "p", "i", "f", "y" >>,
      << "M", "e", "r", "g", "e", " ", "p", "u", "l", "l", " ", "r", "e",
         "q", "u", "e", "s", "t", " ", "#", "1", " ", "f", "r", "o", "m",
         " ", "o", "/", "s", "t", "a", "g", "i", "n", "g" >>,
      << "M", "e", "r", "g", "e", " ", "p", "u", "l", "l", " ", "r", "e",
         "q", "u", "e", "s", "t", " ", "#", "2", " ", "f", "r", "o", "m",
         " ", "o", "/", "s", "y", "n", "c", "/", "h", "o", "r", "i", "z",
         "o", "n" >>,
      << "S", "y", "n", "c", " ", "f", "i", "l", "e", "s", " ", "f", "r",
         "o", "m", " ", "s", "g", "c", "-", "p", "r", "o", "d", "u", "c",
         "t", "i", "o", "n", " ", "b", "y", " ", "h", "a", "n", "d" >>,
      << "w", "i", "p" >>,
      << >> }

\* The branches a push event can name.
PushedRefs ==
    { "refs/heads/sgc-production", "refs/heads/sgc-staging",
      "refs/heads/production", "refs/heads/staging", "refs/heads/feature" }

PushEvent(ref, message, deleted, hasSgcProduction, system) ==
    [ref |-> ref, message |-> message, deleted |-> deleted,
     hasSgcProduction |-> hasSgcProduction, system |-> system]

Trigger(fn, par) == [fn |-> fn, parent |-> par]

\* The push event triggers no operation.
noTrigger == Trigger("none", "none")

\* A slip: every push on an sgc branch is synced back.
TriggersOnAnyPush(headCommitMessage) == TRUE

\* headCommitMessage.includes("update from shopify")
TriggersParentSync(headCommitMessage) ==
    Includes(headCommitMessage, updateFromShopify)

\* horizonUpdate || stagingUpdate, else sgcUpdate
TriggersRebase(headCommitMessage) ==
    LET horizonUpdate == /\ Includes(headCommitMessage, mergePullRequest)
                         /\ Includes(headCommitMessage, syncHorizon)
        stagingUpdate == /\ Includes(headCommitMessage, mergePullRequest)
                         /\ Includes(headCommitMessage, slashStaging)
        sgcUpdate == Includes(headCommitMessage, syncFilesFromSgcProduction)
    IN  horizonUpdate \/ stagingUpdate \/ sgcUpdate

\* webhooks.on("push"): the operation the event triggers.
Route(e) ==
    IF ~e.hasSgcProduction THEN noTrigger
    ELSE IF e.deleted \/ Len(e.message) = 0 THEN noTrigger
    ELSE LET headCommitMessage == toLowerCase(e.message)
         IN  CASE e.ref = "refs/heads/sgc-production" ->
                    IF TriggersParentSync(headCommitMessage)
                    THEN Trigger("updateParentOnSGCPush", "production")
                    ELSE noTrigger
               [] e.ref = "refs/heads/sgc-staging" ->
                    IF TriggersParentSync(headCommitMessage)
                    THEN Trigger("updateParentOnSGCPush", "staging")
                    ELSE noTrigger
               [] e.ref = "refs/heads/production" ->
                    IF TriggersRebase(headCommitMessage)
                    THEN Trigger("updateStagingOnProductionPush", "production")
                    ELSE noTrigger
               [] e.ref = "refs/heads/staging" ->
                    Trigger("updateSGCOnParentPush", "staging")
               [] OTHER -> noTrigger

\* The counts a sync commit message can carry.
Counts == 0 .. 1

\* The push events an operation can cause, given the event that triggered it.
Produced(t, e) ==
    CASE t.fn = "updateParentOnSGCPush" ->
           { PushEvent(IF t.parent = "production" THEN "refs/heads/production"
                       ELSE "refs/heads/staging",
                       m, FALSE, e.hasSgcProduction, TRUE) :
               m \in { SyncText(t.parent, c[1], c[2], c[3]) :
                         c \in { x \in Counts \X Counts \X Counts :
                                   x[1] + x[2] + x[3] > 0 } }
                     \cup { MergeText(t.parent) } }
      [] t.fn = "updateSGCOnParentPush" ->
           { PushEvent(IF t.parent = "production"
                       THEN "refs/heads/sgc-production"
                       ELSE "refs/heads/sgc-staging",
                       m, FALSE, e.hasSgcProduction, TRUE) :
               m \in { SyncTextSGC(t.parent, c[1], c[2]) :
                         c \in { x \in Counts \X Counts : x[1] + x[2] > 0 } }
                     \cup { MergeTextSGC(t.parent) } }
      [] t.fn = "updateStagingOnProductionPush" ->
           { PushEvent("refs/heads/staging", m, FALSE, e.hasSgcProduction,
                       TRUE) :
               m \in ({RebaseText, e.message} \cup ExternalMessages)
                     \ { << >> } }
      [] OTHER -> { }

\* The event is routed: an operation starts or the chain ends.
RouterRoute ==
    /\ Router /\ pc = "route"
    /\ Len(log) < MaxHops
    /\ LET t == Route(event)
       IN  IF t.fn = "none"
           THEN Return("skipped") /\ UNCHANGED log
           ELSE /\ log' = Append(log, Req(t.fn, t.parent, TRUE))
                /\ pc' = "run"
                /\ UNCHANGED outcome
    /\ UNCHANGED << inputs, previewLocals, batchLocals, branchLocals, limiterLocals, event,
                    error >>

\* The operation moves a branch: its push event is routed next.
RouterOperationPushes ==
    /\ Router /\ pc = "run"
    /\ \E e \in Produced([fn |-> log[Len(log)].req,
                          parent |-> log[Len(log)].arg], event) :
          event' = e
    /\ pc' = "route"
    /\ UNCHANGED << inputs, previewLocals, batchLocals, branchLocals, limiterLocals, log,
                    error, outcome >>

\* The operation ends without moving a branch.
RouterOperationEnds ==
    /\ Router /\ pc = "run"
    /\ Return("quiet")
    /\ UNCHANGED << inputs, previewLocals, batchLocals, branchLocals, limiterLocals, event,
                    log, error >>

InitRouter ==
    /\ op = "pushRouter"
    /\ run = 1 /\ parent = "staging" /\ includeJsonFiles = FALSE
    /\ refs = << >> /\ startRefs = << >> /\ commits = << >>
    /\ sgcSha = 0 /\ parentSha = 0
    /\ sgcFiles = << >> /\ shopifyFiles = << >> /\ parentFiles = << >>
    /\ treeUpdates = << >>
    /\ filesUpdated = 0 /\ filesAdded = 0 /\ filesDeleted = 0
    /\ blobsToFetch = << >> /\ idx = 0 /\ blob = << >>
    /\ newTree = << >> /\ newCommit = 0
    /\ error = noError /\ outcome = "running" /\ log = << >>
    /\ stagingExists = FALSE /\ productionSha = 0 /\ stagingSha = 0
    /\ productionCommit = << >> /\ rebaseCommit = 0 /\ mergeBase = << >>
    /\ stagingCommits = << >> /\ currentParentSha = 0
    /\ commitDetails = << >>
    /\ options = << >> /\ attempt = 0 /\ lastError = << >>
    /\ delay = 0 /\ now = 0 /\ response = << >>
    /\ items = << >> /\ batchOptions = << >>
    /\ batchI = 0 /\ batchJ = 0 /\ results = << >>
    /\ NoPreview
    /\ \E ref \in PushedRefs, m \in ExternalMessages, del \in BOOLEAN,
          has \in BOOLEAN :
          event = PushEvent(ref, m, del, has, FALSE)
    /\ pc = "route"

NextRouter == RouterRoute \/ RouterOperationPushes \/ RouterOperationEnds

SpecRouter == InitRouter /\ [][NextRouter]_vars

-----------------------------------------------------------------------------
\* handlePreviewTheme of part_002: the body of the pull request, the theme
\* store, and the runs the "labeled" and "synchronize" events start.

PreviewTheme == op = "handlePreviewTheme"

\* The events of a pull request that start a run.
PreviewEvents == { "labeled", "synchronize" }

\* The body of a pull request is a sequence of pieces: plain text, or a theme
\* id written in one of the three formats that are looked for.
Text == [format |-> "text", id |-> null]

\* "[preview-theme-id:<id>]", "Preview Theme ID: [<id>]", "Preview Theme ID: <id>"
Marker(format, id) == [format |-> format, id |-> id]

\* body.match(re): the id of the first piece of the format, or no match.
Match(body, format) ==
    LET hits == { i \in 1 .. Len(body) : body[i].format = format }
    IN  IF hits = {} THEN null
        ELSE body[CHOOSE i \in hits : \A j \in hits : i <= j].id

\* getExistingPreviewThemeId on the body it has read.
ThemeIdIn(body) ==
    IF Len(body) = 0 THEN null
    ELSE IF Match(body, "bracket") # null THEN Match(body, "bracket")
    ELSE IF Match(body, "labelBracket") # null THEN Match(body, "labelBracket")
    ELSE Match(body, "labelPlain")

\* saveThemeIdToDescription: the ids of every format are removed and the
\* section with the id is appended.
WithThemeId(body, themeId) ==
    SelectSeq(body, LAMBDA piece : piece.format = "text")
        \o << Marker("bracket", themeId) >>

\* The id the store gives a new theme.
NewThemeId(store) ==
    IF store = {} THEN 1
    ELSE 1 + (CHOOSE t \in store : \A u \in store : u <= t)

\* The descriptions a pull request starts with.
Descriptions ==
    { << >>, << Text >>,
      << Text, Marker("bracket", 7) >>,
      << Marker("labelBracket", 7), Text >>,
      << Marker("labelPlain", 7) >> }

\* The awaits of a run that reject into the catch block of handlePreviewTheme.
PreviewThrowing == { "getRepo", "download", "updateFiles", "upload", "create" }

PreviewAt(r, at) == PreviewTheme /\ previewRuns[r].pc = at

PreviewGoes(r, to) ==
    previewRuns' = [previewRuns EXCEPT ![r].pc = to]

\* extractStoreNameFromHomepage: GET /repos/{owner}/{repo}.
PreviewGetRepo ==
    \E r \in PreviewEvents :
        /\ PreviewAt(r, "getRepo")
        /\ \E hasStore \in BOOLEAN :
              PreviewGoes(r, IF hasStore THEN "getExisting" ELSE "missingStore")
        /\ UNCHANGED << inputs, batchLocals, routerLocals, branchLocals,
                        limiterLocals, pc, error, outcome, log, description,
                        themes >>

\* displayMissingStoreNameError: the comment is posted and the run returns.
PreviewMissingStore ==
    \E r \in PreviewEvents :
        /\ PreviewAt(r, "missingStore")
        /\ PreviewGoes(r, "done")
        /\ UNCHANGED << inputs, batchLocals, routerLocals, branchLocals,
                        limiterLocals, pc, error, outcome, log, description,
                        themes >>

\* getExistingPreviewThemeId: GET /pulls/{pull_number} answers.
PreviewGetExisting ==
    \E r \in PreviewEvents :
        /\ PreviewAt(r, "getExisting")
        /\ previewRuns' = [previewRuns EXCEPT
                             ![r].existingThemeId = ThemeIdIn(description),
                             ![r].pc = "download"]
        /\ UNCHANGED << inputs, batchLocals, routerLocals, branchLocals,
                        limiterLocals, pc, error, outcome, log, description,
                        themes >>

\* getExistingPreviewThemeId: the request is rejected, the catch returns null.
PreviewGetExistingFails ==
    \E r \in PreviewEvents :
        /\ PreviewAt(r, "getExisting")
        /\ previewRuns' = [previewRuns EXCEPT ![r].existingThemeId = null,
                                              ![r].pc = "download"]
        /\ UNCHANGED << inputs, batchLocals, routerLocals, branchLocals,
                        limiterLocals, pc, error, outcome, log, description,
                        themes >>

\* downloadAndExtractRepository, then if (existingThemeId) ... else ...
PreviewDownload ==
    \E r \in PreviewEvents :
        /\ PreviewAt(r, "download")
        /\ PreviewGoes(r, IF previewRuns[r].existingThemeId # null
                          THEN "updateFiles" ELSE "upload")
        /\ UNCHANGED << inputs, batchLocals, routerLocals, branchLocals,
                        limiterLocals, pc, error, outcome, log, description,
                        themes >>

\* updateThemeFiles on the existing theme: themeId = existingThemeId.
PreviewUpdateFiles ==
    \E r \in PreviewEvents :
        /\ PreviewAt(r, "updateFiles")
        /\ log' = Append(log, Req("themeUpdate",
                                  [run |-> r,
                                   theme |-> previewRuns[r].existingThemeId],
                                  TRUE))
        /\ previewRuns' = [previewRuns EXCEPT
                             ![r].themeId = previewRuns[r].existingThemeId,
                             ![r].pc = "saveGet"]
        /\ UNCHANGED << inputs, batchLocals, routerLocals, branchLocals,
                        limiterLocals, pc, error, outcome, description,
                        themes >>

\* handleFileUpload answers a resource URL.
PreviewUpload ==
    \E r \in PreviewEvents :
        /\ PreviewAt(r, "upload")
        /\ PreviewGoes(r, "create")
        /\ UNCHANGED << inputs, batchLocals, routerLocals, branchLocals,
                        limiterLocals, pc, error, outcome, log, description,
                        themes >>

\* The theme-create request as it is issued: held is the id the description
\* holds at that moment.
ThemeCreate(r, ok) ==
    Req("themeCreate", [run |-> r, held |-> ThemeIdIn(description)], ok)

\* POST .../api/theme/create answers the new theme.
PreviewCreate ==
    \E r \in PreviewEvents :
        /\ PreviewAt(r, "create")
        /\ log' = Append(log, ThemeCreate(r, TRUE))
        /\ themes' = themes \cup { NewThemeId(themes) }
        /\ previewRuns' = [previewRuns EXCEPT
                             ![r].themeId = NewThemeId(themes),
                             ![r].pc = "saveGet"]
        /\ UNCHANGED << inputs, batchLocals, routerLocals, branchLocals,
                        limiterLocals, pc, error, outcome, description >>

\* An await of the try block is rejected (or answers without what is
\* needed): the catch block of handlePreviewTheme runs.
PreviewStepFails ==
    \E r \in PreviewEvents :
        /\ PreviewTheme /\ previewRuns[r].pc \in PreviewThrowing
        /\ IF previewRuns[r].pc = "create"
           THEN log' = Append(log, ThemeCreate(r, FALSE))
           ELSE UNCHANGED log
        /\ PreviewGoes(r, "errorComment")
        /\ UNCHANGED << inputs, batchLocals, routerLocals, branchLocals,
                        limiterLocals, pc, error, outcome, description,
                        themes >>

\* saveThemeIdToDescription: GET /pulls/{pull_number} answers pr.body.
PreviewSaveGet ==
    \E r \in PreviewEvents :
        /\ PreviewAt(r, "saveGet")
        /\ previewRuns' = [previewRuns EXCEPT ![r].body = description,
                                              ![r].pc = "savePatch"]
        /\ UNCHANGED << inputs, batchLocals, routerLocals, branchLocals,
                        limiterLocals, pc, error, outcome, log, description,
                        themes >>

\* saveThemeIdToDescription: PATCH /pulls/{pull_number} with updatedBody.
PreviewSavePatch ==
    \E r \in PreviewEvents :
        /\ PreviewAt(r, "savePatch")
        /\ description' = WithThemeId(previewRuns[r].body,
                                      previewRuns[r].themeId)
        /\ previewRuns' = [previewRuns EXCEPT ![r].body = << >>,
                                              ![r].pc = "waitReady"]
        /\ UNCHANGED << inputs, batchLocals, routerLocals, branchLocals,
                        limiterLocals, pc, error, outcome, log, themes >>

\* saveThemeIdToDescription: a request is rejected, the catch block logs.
PreviewSaveFails ==
    \E r \in PreviewEvents :
        /\ PreviewTheme /\ previewRuns[r].pc \in { "saveGet", "savePatch" }
        /\ previewRuns' = [previewRuns EXCEPT ![r].body = << >>,
                                              ![r].pc = "waitReady"]
        /\ UNCHANGED << inputs, batchLocals, routerLocals, branchLocals,
                        limiterLocals, pc, error, outcome, log, description,
                        themes >>

\* waitForThemeReady answers true or false.
PreviewWaitReady ==
    \E r \in PreviewEvents :
        /\ PreviewAt(r, "waitReady")
        /\ PreviewGoes(r, "comment")
        /\ UNCHANGED << inputs, batchLocals, routerLocals, branchLocals,
                        limiterLocals, pc, error, outcome, log, description,
                        themes >>

\* commentPreviewThemeId (its errors are logged), then the clean-up.
PreviewComment ==
    \E r \in PreviewEvents :
        /\ PreviewAt(r, "comment")
        /\ PreviewGoes(r, "cleanUp")
        /\ UNCHANGED << inputs, batchLocals, routerLocals, branchLocals,
                        limiterLocals, pc, error, outcome, log, description,
                        themes >>

\* rm(tempDir): the run returns.
PreviewCleanUp ==
    \E r \in PreviewEvents :
        /\ PreviewAt(r, "cleanUp")
        /\ PreviewGoes(r, "done")
        /\ UNCHANGED << inputs, batchLocals, routerLocals, branchLocals,
                        limiterLocals, pc, error, outcome, log, description,
                        themes >>

\* The catch block of handlePreviewTheme posts the error comment.
PreviewErrorComment ==
    \E r \in PreviewEvents :
        /\ PreviewAt(r, "errorComment")
        /\ PreviewGoes(r, "failed")
        /\ UNCHANGED << inputs, batchLocals, routerLocals, branchLocals,
                        limiterLocals, pc, error, outcome, log, description,
                        themes >>

\* A pull request with the preview label: the label has been added and a
\* push has followed, each event starts a run.
InitPreview ==
    /\ op = "handlePreviewTheme"
    /\ run = 1 /\ parent = "staging" /\ includeJsonFiles = FALSE
    /\ refs = << >> /\ startRefs = << >> /\ commits = << >>
    /\ sgcSha = 0 /\ parentSha = 0
    /\ sgcFiles = << >> /\ shopifyFiles = << >> /\ parentFiles = << >>
    /\ treeUpdates = << >>
    /\ filesUpdated = 0 /\ filesAdded = 0 /\ filesDeleted = 0
    /\ blobsToFetch = << >> /\ idx = 0 /\ blob = << >>
    /\ newTree = << >> /\ newCommit = 0
    /\ error = noError /\ outcome = "running" /\ log = << >>
    /\ stagingExists = FALSE /\ productionSha = 0 /\ stagingSha = 0
    /\ productionCommit = << >> /\ rebaseCommit = 0 /\ mergeBase = << >>
    /\ stagingCommits = << >> /\ currentParentSha = 0
    /\ commitDetails = << >>
    /\ options = << >> /\ attempt = 0 /\ lastError = << >>
    /\ delay = 0 /\ now = 0 /\ response = << >>
    /\ items = << >> /\ batchOptions = << >>
    /\ batchI = 0 /\ batchJ = 0 /\ results = << >>
    /\ event = << >>
    /\ pc = "handlers"
    /\ description \in Descriptions
    /\ themes = { description[i].id : i \in 1 .. Len(description) } \ { null }
    /\ previewRuns = [r \in PreviewEvents |->
                        [pc |-> "getRepo", existingThemeId |-> null,
                         themeId |-> null, body |-> << >>]]

NextPreview ==
    \/ PreviewGetRepo \/ PreviewMissingStore \/ PreviewGetExisting
    \/ PreviewGetExistingFails \/ PreviewDownload \/ PreviewUpdateFiles
    \/ PreviewUpload \/ PreviewCreate \/ PreviewStepFails \/ PreviewSaveGet
    \/ PreviewSavePatch \/ PreviewSaveFails \/ PreviewWaitReady
    \/ PreviewComment \/ PreviewCleanUp \/ PreviewErrorComment

SpecPreview == InitPreview /\ [][NextPreview]_vars





NextTwice == Next \/ Rerun

SpecTwice == Init /\ [][NextTwice]_vars

-----------------------------------------------------------------------------
\* Vocabulary of the properties.

AllowList ==
    { assets, blocks, config, layout, locales, sections, snippets, templates }

\* The part of a path before its first "/", the whole path if it has none.
FirstSegment(path) ==
    IF \E i \in 1 .. Len(path) : path[i] = "/"
    THEN SubSeq(path, 1,
                (CHOOSE i \in 1 .. Len(path) :
                    path[i] = "/" /\ \A j \in 1 .. i - 1 : path[j] # "/") - 1)
    ELSE path

\* The path lies in an allow-listed directory (or is named like one).
InAllowListedDir(path) == FirstSegment(path) \in AllowList

HeadTree(branch) == commits[refs[branch]].tree
StartTree(branch) == commits[startRefs[branch]].tree

Requests(name) == { k \in 1 .. Len(log) : log[k].req = name }

ParentSync == op = "updateParentOnSGCPush"

\* No request of the invocation has been rejected so far.
AllOk == \A k \in 1 .. Len(log) : log[k].ok

-----------------------------------------------------------------------------
\* C1: after a structured publish of updateParentOnSGCPush every file of
\* sgc-<parent> in an allow-listed directory is in <parent> with the same
\* blob SHA, whatever the source tree (also when paths share a blob SHA).
C1_AddedFilesSynced ==
    (ParentSync /\ pc = "done" /\ outcome = "synced") =>
        \A p \in DOMAIN HeadTree("sgc") :
            InAllowListedDir(p) =>
                At(HeadTree("parent"), p) = HeadTree("sgc")[p]

\* C2: a second run right after a structured publish, none of whose requests
\* is rejected, records no tree-update, creates no blob, tree or commit and
\* leaves the <parent> ref where it was.
C2_SecondRunIsNoOp ==
    (ParentSync /\ run = 2 /\ AllOk) =>
        /\ Len(treeUpdates) = 0
        /\ Requests("createBlob") = {}
        /\ Requests("createTree") = {}
        /\ Requests("createCommit") = {}
        /\ refs.parent = startRefs.parent

-----------------------------------------------------------------------------
\* The diff of the invocation is complete and no request has been rejected:
\* the tree-update set is the one it submits (or would have submitted).
DiffComplete ==
    \/ pc \in {"createTree", "createCommit", "updateRef"}
    \/ pc = "done" /\ outcome \in {"noSgcFiles", "noUpdates", "synced"}

EntriesFor(updates, p) == { k \in 1 .. Len(updates) : updates[k].path = p }

\* Destination paths in an allow-listed directory that the source lacks.
OnlyInParent ==
    { p \in DOMAIN StartTree("parent") :
        InAllowListedDir(p) /\ p \notin DOMAIN StartTree("sgc") }

ExactlyOneDeletion(updates, p) ==
    /\ Cardinality(EntriesFor(updates, p)) = 1
    /\ \A k \in EntriesFor(updates, p) : updates[k].sha = null

OutOfScopeUntouched ==
    \A p \in DOMAIN StartTree("parent") \cup DOMAIN HeadTree("parent") :
        ~InAllowListedDir(p) =>
            At(HeadTree("parent"), p) = At(StartTree("parent"), p)

\* C4: on every execution path of updateParentOnSGCPush, fallback included,
\* every destination path outside the allow-listed directories has the same
\* presence and blob SHA in <parent> after the run as before it.
C4_OutOfScopeUntouchedEverywhere ==
    ParentSync => OutOfScopeUntouched

\* C4 as amended: the same on every execution path on which no fallback
\* merge succeeds.
C4_OutOfScopeUntouchedUnlessMerged ==
    (ParentSync /\ outcome # "merged") => OutOfScopeUntouched

C4_Witness ==
    /\ ParentSync /\ pc = "done" /\ outcome = "synced"
    /\ \E p \in DOMAIN StartTree("parent") :
         /\ ~InAllowListedDir(p)
         /\ At(StartTree("sgc"), p) # StartTree("parent")[p]
    /\ OnlyInParent # {}

ShasIn(tree) == { tree[p] : p \in DOMAIN tree }

\* C7: no blob is fetched or created for a SHA that occurs anywhere in the
\* destination tree, and every tree-update entry that is not a deletion
\* carries the blob SHA its path has in the source.
C7_DedupInvariant ==
    ParentSync =>
        /\ \A k \in Requests("getBlob") :
             log[k].arg \notin ShasIn(StartTree("parent"))
        /\ \A k \in Requests("createBlob") :
             BlobShaOf(log[k].arg) \notin ShasIn(StartTree("parent"))
        /\ \A k \in 1 .. Len(treeUpdates) :
             treeUpdates[k].sha # null =>
                 treeUpdates[k].sha = At(StartTree("sgc"), treeUpdates[k].path)

C7_Witness ==
    /\ ParentSync /\ pc = "done" /\ outcome = "synced"
    /\ Requests("getBlob") = {}
    /\ \E k \in 1 .. Len(treeUpdates) :
         /\ treeUpdates[k].sha \in ShasIn(StartTree("parent"))
         /\ At(StartTree("parent"), treeUpdates[k].path) # treeUpdates[k].sha

\* Source and destination agree on every path of the allow-listed directories.
InSyncInScope ==
    \A p \in DOMAIN StartTree("sgc") \cup DOMAIN StartTree("parent") :
        InAllowListedDir(p) => At(StartTree("sgc"), p) = At(StartTree("parent"), p)

NoPublishRequest ==
    /\ Requests("createTree") = {}
    /\ Requests("createCommit") = {}
    /\ Requests("updateRef") = {}

\* C9: when source and destination agree in scope the diff records nothing
\* and no tree, commit or ref-update request is ever issued; an invocation
\* that returns with no tree-update has issued no merge request either and
\* has left the <parent> ref alone.
C9_NoOpPublish ==
    ParentSync =>
        /\ InSyncInScope => NoPublishRequest
        /\ (pc = "done" /\ outcome = "noUpdates") =>
             /\ InSyncInScope
             /\ Len(treeUpdates) = 0
             /\ NoPublishRequest
             /\ Requests("merge") = {}
             /\ refs.parent = startRefs.parent

C9_Witness ==
    /\ ParentSync /\ pc = "done" /\ outcome = "noUpdates"
    /\ \E p \in DOMAIN StartTree("sgc") : InAllowListedDir(p)
    /\ \E p \in DOMAIN StartTree("sgc") :
         At(StartTree("parent"), p) # StartTree("sgc")[p]

\* C10: blob creations complete before the tree creation is issued, the tree
\* creation before the commit creation, the commit creation before the ref
\* update; the ref update names the commit of this invocation, whose tree is
\* the tree of this invocation.
C10_PublishOrdering ==
    ParentSync =>
        /\ \A t \in Requests("createTree") :
             /\ \A b \in Requests("getBlob") \cup Requests("createBlob") :
                  b < t /\ log[b].ok
             /\ Cardinality(Requests("createBlob")) = Len(blobsToFetch)
             /\ \A t2 \in Requests("createTree") : t2 = t
        /\ \A c \in Requests("createCommit") :
             /\ \E t \in Requests("createTree") :
                  /\ t < c /\ log[t].ok
                  /\ log[c].arg.tree =
                        CreateTree(log[t].arg.base_tree, log[t].arg.tree)
             /\ \A c2 \in Requests("createCommit") : c2 = c
        /\ \A u \in Requests("updateRef") :
             /\ \E c \in Requests("createCommit") :
                  /\ c < u /\ log[c].ok
                  /\ log[u].arg.sha \notin Ancestors(startRefs.parent)
                                            \cup Ancestors(startRefs.sgc)
                  /\ log[u].arg.sha = newCommit
                  /\ commits[log[u].arg.sha].tree = log[c].arg.tree
                  /\ commits[log[u].arg.sha].parents = log[c].arg.parents
             /\ \A u2 \in Requests("updateRef") : u2 = u
             /\ \A k \in u + 1 .. Len(log) : log[k].req = "merge"

C10_Witness ==
    /\ ParentSync /\ pc = "done" /\ outcome = "synced"
    /\ Cardinality(Requests("createBlob")) = 2
    /\ refs.parent = Len(commits)

-----------------------------------------------------------------------------
pAssetsX == assets \o Slash \o << "x", ".", "j", "s" >>
pBuildXjs == << "b", "u", "i", "l", "d" >> \o Slash \o << "x", ".", "j", "s" >>

\* C5: only a path that starts with "<dir>/" for an allow-listed directory
\* or equals such a name gets a tree-update (an addition, an update or a
\* deletion), and every such path at which source and destination differ is
\* taken up by the diff (it gets a tree-update or its blob is queued for
\* transfer); the source loop and the deletion loop use the same test.
\* assets/x.js is in scope, build/x.js and assetsfoo/x.js are not.
C5_ScopeTest ==
    ParentSync =>
        /\ (DiffComplete /\ outcome # "noSgcFiles") =>
             \A p \in DOMAIN StartTree("sgc") \cup DOMAIN StartTree("parent") :
                 /\ EntriesFor(treeUpdates, p) # {} =>
                       /\ InAllowListedDir(p)
                       /\ At(StartTree("sgc"), p) # At(StartTree("parent"), p)
                 /\ ( /\ InAllowListedDir(p)
                      /\ At(StartTree("sgc"), p) # At(StartTree("parent"), p) ) =>
                       \/ EntriesFor(treeUpdates, p) # {}
                       \/ \E k \in 1 .. Len(blobsToFetch) :
                             blobsToFetch[k].key = At(StartTree("sgc"), p)
        /\ \A p \in DOMAIN StartTree("sgc") \cup DOMAIN StartTree("parent") :
             /\ isInShopifyFolder(p) <=> InAllowListedDir(p)
             /\ isInShopifyFolderForDeletion(p) <=> isInShopifyFolder(p)
        /\ isInShopifyFolder(pAssetsX)
        /\ ~isInShopifyFolder(pBuildXjs)
        /\ ~isInShopifyFolder(pAssetsFoo)

\* A file named exactly like an allow-listed directory has been added.
C5_Witness ==
    /\ ParentSync /\ pc = "done" /\ outcome = "synced"
    /\ \E p \in DOMAIN StartTree("sgc") :
         /\ p \in AllowList
         /\ p \notin DOMAIN StartTree("parent")
         /\ EntriesFor(treeUpdates, p) # {}

-----------------------------------------------------------------------------
\* A .json path other than config/settings_schema.json.
JsonExcluded(p) ==
    /\ Len(p) >= Len(DotJson)
    /\ SubSeq(p, Len(p) - Len(DotJson) + 1, Len(p)) = DotJson
    /\ p # settingsSchemaPath

\* In scope for updateSGCOnParentPush under its includeJsonFiles argument.
Eligible(p) == InAllowListedDir(p) /\ (includeJsonFiles \/ ~JsonExcluded(p))

-----------------------------------------------------------------------------
\* The branch an invocation publishes to, and the head SHA it read for it.
Dest == IF ParentSync THEN "parent" ELSE "sgc"

DestShaRead == IF ParentSync THEN parentSha ELSE sgcSha

\* The commits that were there before the invocation.
StartCommits == Ancestors(startRefs.parent) \cup Ancestors(startRefs.sgc)

\* C8: every commit that the structured publish of either function asks for
\* or creates has exactly one parent, the head SHA of the destination branch
\* that the invocation read at its start; a new commit with two parents is a
\* merge commit and there is an accepted fallback merge request for it.
C8_SingleParentPublish ==
    /\ \A r \in Requests("createCommit") :
          /\ Len(log[r].arg.parents) = 1
          /\ log[r].arg.parents[1] = DestShaRead
          /\ log[r].arg.parents[1] = startRefs[Dest]
    /\ \A c \in (1 .. Len(commits)) \ StartCommits :
          /\ commits[c].message.kind = "sync" =>
                commits[c].parents = << startRefs[Dest] >>
          /\ Len(commits[c].parents) # 1 =>
                /\ Len(commits[c].parents) = 2
                /\ commits[c].message.kind = "merge"
                /\ \E r \in Requests("merge") : log[r].ok
                /\ \A r \in Requests("updateRef") : ~log[r].ok

\* updateSGCOnParentPush has published a commit on top of the sgc head.
C8_Witness ==
    /\ SGCSync /\ pc = "done" /\ outcome = "synced"
    /\ newCommit \notin StartCommits
    /\ refs.sgc = newCommit
    /\ commits[newCommit].parents = << startRefs.sgc >>

-----------------------------------------------------------------------------
\* Status 422, or a message that contains "conflict".
ConflictClass(e) ==
    \/ e.status = 422
    \/ e.hasMessage /\ \E i \in 1 .. Len(e.message) - 7 :
                          SubSeq(e.message, i, i + 7) = conflictWord

\* The rejected requests of the log.
Rejected == { k \in 1 .. Len(log) : ~log[k].ok }

PublishSteps == { "createTree", "createCommit", "updateRef" }

\* C11: when the tree creation, the commit creation or the ref update of
\* updateParentOnSGCPush is rejected with a conflict-class error, the next
\* request is a merge of sgc-<parent> into <parent>, it is the only merge
\* request of the invocation whether it is accepted or rejected, nothing
\* follows it, and the invocation ends without raising; when the error is not
\* conflict-class the invocation ends with no merge request.
C11_FallbackPolicy ==
    ParentSync =>
        /\ Cardinality(Requests("merge")) <= 1
        /\ \A r \in Rejected :
              log[r].req \in PublishSteps =>
                 IF ConflictClass(error)
                 THEN /\ pc \in {"fallbackMerge", "done"}
                      /\ pc = "fallbackMerge" =>
                            /\ Len(log) = r
                            /\ outcome = "running"
                      /\ pc = "done" =>
                            /\ Len(log) = r + 1
                            /\ log[r + 1].req = "merge"
                            /\ log[r + 1].arg = [base |-> "parent", head |-> "sgc"]
                            /\ outcome = IF log[r + 1].ok THEN "merged"
                                         ELSE "mergeFailed"
                 ELSE /\ pc = "done"
                      /\ Len(log) = r
                      /\ Requests("merge") = {}
                      /\ outcome \in {"failed", "threw"}

\* The ref update was rejected with 409 "Merge conflict" and the fallback
\* merge was rejected too.
C11_Witness ==
    /\ ParentSync /\ pc = "done" /\ outcome = "mergeFailed"
    /\ error.status = 409
    /\ Len(log) >= 2
    /\ log[Len(log) - 1].req = "updateRef" /\ ~log[Len(log) - 1].ok
    /\ log[Len(log)].req = "merge" /\ ~log[Len(log)].ok

-----------------------------------------------------------------------------
\* C12: updateParentOnSGCPush and updateSGCOnParentPush end without raising,
\* whichever request is rejected and whatever the raised value looks like
\* (with or without status, with or without message), also when the
\* structured publish and the fallback merge both fail.
C12_NeverAborts ==
    pc = "done" => outcome # "threw"

-----------------------------------------------------------------------------
Rebase == SquashRebase \/ ReplayRebase

\* The requests that create an object or move a ref.
Mutating ==
    { k \in 1 .. Len(log) :
        log[k].req \in {"createBlob", "createTree", "createCommit",
                        "updateRef", "merge"} }

\* The commits that staging had and production lacked when the invocation
\* started, oldest first.
Originals ==
    IF startRefs.staging = null THEN << >>
    ELSE SortedSeq(Ancestors(startRefs.staging)
                      \ Ancestors(startRefs.production))

\* The commits created since the invocation started: the repository held
\* the commits up to the younger of the two heads.
Created ==
    LET last == IF startRefs.staging > startRefs.production
                THEN startRefs.staging ELSE startRefs.production
    IN  last + 1 .. Len(commits)

\* C13: in both rebase variants, when staging and production point at the
\* same commit the invocation issues no mutating request, leaves the staging
\* ref and the commits alone, and returns after the second lookup of staging
\* when no request is rejected.
C13_RebaseNoOp ==
    (Rebase /\ startRefs.staging = startRefs.production) =>
        /\ Mutating = {}
        /\ refs = startRefs
        /\ Created = {}
        /\ (pc = "done" /\ AllOk) => (outcome = "upToDate" /\ Len(log) = 3)

\* The replay variant has returned because the two heads were equal.
C13_Witness ==
    /\ ReplayRebase /\ pc = "done" /\ outcome = "upToDate"
    /\ startRefs.staging = startRefs.production
    /\ stagingSha = productionSha /\ stagingSha # 0

\* C14: when the first lookup of the staging ref is answered 404 the
\* invocation returns normally and that lookup is its only request; when it
\* is rejected with any other status the error is raised, again with no
\* further request; a repository without staging sees no mutating request.
C14_OptionalBranch ==
    Rebase =>
        /\ (Len(log) >= 1 /\ ~log[1].ok) =>
              /\ log[1] = Req("getRef", "staging", FALSE)
              /\ Len(log) = 1
              /\ pc = "done"
              /\ outcome = IF error.status = 404 THEN "noStaging" ELSE "threw"
              /\ refs = startRefs
        /\ startRefs.staging = null => (Len(log) <= 1 /\ Mutating = {})
        /\ outcome = "noStaging" => (Len(log) = 1 /\ ~log[1].ok)

\* The squash variant found no staging branch and returned.
C14_Witness ==
    /\ SquashRebase /\ pc = "done" /\ outcome = "noStaging"
    /\ startRefs.staging = null
    /\ error.status = 404
    /\ Len(log) = 1

-----------------------------------------------------------------------------
\* Neither head is an ancestor of the other.
Diverged ==
    /\ startRefs.staging # null
    /\ startRefs.staging \notin Ancestors(startRefs.production)
    /\ startRefs.production \notin Ancestors(startRefs.staging)

\* C15: when staging exists and its head differs from production's head,
\* the squash variant, once it has returned without a rejected request, has
\* created exactly one commit, whose tree is the tree of production's head
\* and whose only parent is production's head, and has moved the staging ref
\* to it by a forced ref update; staging's tree then equals production's
\* tree and production's ref is where it was.
C15_SquashRebase ==
    (SquashRebase /\ startRefs.staging # null
                  /\ startRefs.staging # startRefs.production) =>
        /\ \A r \in Requests("updateRef") :
              /\ log[r].arg.force = TRUE
              /\ log[r].arg.ref = "staging"
              /\ \E c \in Requests("createCommit") : c < r /\ log[c].ok
        /\ Cardinality(Requests("createCommit")) <= 1
        /\ \A c \in Created :
              /\ commits[c].tree = commits[startRefs.production].tree
              /\ commits[c].parents = << startRefs.production >>
        /\ (pc = "done" /\ AllOk) =>
              /\ outcome = "rebased"
              /\ Cardinality(Created) = 1
              /\ refs.staging \in Created
              /\ refs.production = startRefs.production
              /\ HeadTree("staging") = HeadTree("production")
              /\ commits[refs.staging].parents = << refs.production >>
              /\ log[Len(log)].req = "updateRef"
              /\ log[Len(log)].arg.sha = refs.staging

\* Staging had diverged from production and has been squashed onto it.
C15_Witness ==
    /\ SquashRebase /\ pc = "done" /\ outcome = "rebased"
    /\ Diverged
    /\ StartTree("staging") # StartTree("production")
    /\ HeadTree("staging") = StartTree("production")

\* The accepted commit creations of the log, in order.
CreatedInOrder == SortedSeq({ r \in Requests("createCommit") : log[r].ok })

\* C16: when staging has k >= 1 commits that production lacks, the replay
\* variant, once it has returned without a rejected request, has created
\* exactly k commits; the i-th has the tree and the message of the i-th
\* original, oldest first, and as its single parent the (i-1)-th new commit,
\* the first one production's head; the staging ref has been force-moved to
\* the last one, so that staging's tree is what it was.
C16_OrderedReplay ==
    (ReplayRebase /\ Len(Originals) >= 1 /\ pc = "done" /\ AllOk) =>
        LET k == Len(Originals)
            new == SortedSeq(Created)
        IN  /\ outcome = "rebased"
            /\ Len(new) = k
            /\ Len(CreatedInOrder) = k
            /\ \A i \in 1 .. k :
                  /\ i <= Len(new)
                  /\ commits[new[i]].tree = commits[Originals[i]].tree
                  /\ commits[new[i]].message = commits[Originals[i]].message
                  /\ commits[new[i]].parents =
                        << IF i = 1 THEN startRefs.production ELSE new[i - 1] >>
            /\ refs.staging = new[Len(new)]
            /\ log[Len(log)].req = "updateRef"
            /\ log[Len(log)].arg.force = TRUE
            /\ HeadTree("staging") = StartTree("staging")

\* C17: in the replay variant, when staging's head is a proper ancestor of
\* production's head, an invocation without a rejected request sets the
\* staging ref to production's head and creates no commit; and the ref
\* update of the short-circuit (to production's head) is issued only when
\* staging has no commit that production lacks.
C17_FastForwardShortCircuit ==
    ReplayRebase =>
        /\ ( /\ startRefs.staging # null
             /\ startRefs.staging # startRefs.production
             /\ startRefs.staging \in Ancestors(startRefs.production)
             /\ pc = "done" /\ AllOk ) =>
               /\ refs.staging = startRefs.production
               /\ Created = {}
        /\ \A r \in Requests("updateRef") :
               log[r].arg.sha = startRefs.production => Len(Originals) = 0
        /\ pc = "fastForward" => Len(Originals) = 0

\* C18: every ref-update request of updateStagingOnProductionPush, in either
\* variant and on every path, carries force = true, and no ref-update request
\* of updateParentOnSGCPush or updateSGCOnParentPush carries force.
C18_ForceDiscipline ==
    \A r \in Requests("updateRef") :
        log[r].arg.force = (IF Rebase THEN TRUE ELSE FALSE)


\* The ref update of the replay variant's short-circuit: it follows the
\* compare request at once and names production's head.
ShortCircuitUpdate(r) ==
    /\ ReplayRebase
    /\ r > 1 /\ log[r - 1].req = "compare"
    /\ log[r].arg.sha = startRefs.production

\* C18 as amended: every ref-update request that ends a rebase (after the
\* squash commit, after the replayed commits) carries force = true; the ref
\* update of the replay variant's short-circuit carries none; and no
\* ref-update request of updateParentOnSGCPush or updateSGCOnParentPush
\* carries force.
C18_ForceExceptShortCircuit ==
    \A r \in Requests("updateRef") :
        IF Rebase
        THEN /\ log[r].arg.ref = "staging"
             /\ log[r].arg.force = ~ShortCircuitUpdate(r)
             /\ ~ShortCircuitUpdate(r) =>
                   \E c \in Requests("createCommit") :
                       c < r /\ log[c].ok /\ log[r].arg.sha \in Created
        ELSE log[r].arg.force = FALSE

\* The replay variant has moved staging by a forced update after replaying
\* two commits.
C18_Witness ==
    /\ ReplayRebase /\ pc = "done" /\ outcome = "rebased"
    /\ Len(Originals) = 2
    /\ log[Len(log)].req = "updateRef"
    /\ log[Len(log)].arg.force = TRUE
    /\ refs.staging = log[Len(log)].arg.sha

-----------------------------------------------------------------------------
\* The calls of requestFn so far.
Calls == Requests("requestFn")

\* Status 403 or 429.
Throttled(e) == e.status \in {403, 429}

\* Primary rate limit: x-ratelimit-remaining is "0".
Primary(e) == Throttled(e) /\ e.remaining = << "0" >>

\* Secondary rate limit: one of the messages that name it.
Secondary(e) ==
    /\ Throttled(e)
    /\ e.hasMessage
    /\ e.message \in {msgSecondary, msgAbuse, msgExceeded}

\* C19: when a call of requestFn is rejected with an error that is neither a
\* primary nor a secondary rate limit, rateLimitedRequest raises that same
\* error at once: the rejected call is the last entry of its trace, no sleep
\* and no call follows it.
C19_NonRateLimitPassThrough ==
    Limiter =>
        \A k \in Calls :
            (~log[k].ok /\ ~Primary(log[k].arg) /\ ~Secondary(log[k].arg)) =>
                /\ Len(log) = k
                /\ pc = "done"
                /\ outcome = "raised"
                /\ error = log[k].arg

\* A forbidden answer (403, quota left, no rate-limit message) to the second
\* call has been raised.
C19_Witness ==
    /\ Limiter /\ pc = "done" /\ outcome = "raised"
    /\ attempt = 1
    /\ error.status = 403 /\ error.remaining = << "5" >>
    /\ Cardinality(Calls) = 2

\* C20: requestFn is never called more than maxRetries + 1 times; and when
\* every call has been rejected with a rate-limit error, with or without a
\* retry-after or x-ratelimit-reset hint, rateLimitedRequest ends after
\* exactly maxRetries + 1 calls by raising the error of the last call.
C20_RetryExhaustion ==
    Limiter =>
        /\ Cardinality(Calls) <= options.maxRetries + 1
        /\ ( /\ pc = "done"
             /\ \A k \in Calls :
                   ~log[k].ok /\ (Primary(log[k].arg) \/ Secondary(log[k].arg)) ) =>
               /\ Cardinality(Calls) = options.maxRetries + 1
               /\ outcome = "raised"
               /\ \E k \in Calls :
                     /\ \A j \in Calls : j <= k
                     /\ error = log[k].arg

\* Three calls were rejected with rate-limit errors, the last one with a
\* retry-after hint, and the last error has been raised.
C20_Witness ==
    /\ Limiter /\ pc = "done" /\ outcome = "raised"
    /\ options.maxRetries = 2
    /\ Cardinality(Calls) = 3
    /\ \A k \in Calls : Primary(log[k].arg) \/ Secondary(log[k].arg)
    /\ error.retryAfter = << "2" >>
    /\ log[Len(log)].req = "sleep"

-----------------------------------------------------------------------------
\* The rejected calls of requestFn.
FailedCalls == { k \in Calls : ~log[k].ok }

\* The error carries neither header that suggests a wait.
NoHint(e) == e.retryAfter = noHeader /\ e.reset = noHeader

RECURSIVE SleptFrom(_)
\* The sum of the sleeps from position i of the trace on.
SleptFrom(i) ==
    IF i > Len(log) THEN 0
    ELSE (IF log[i].req = "sleep" THEN log[i].arg ELSE 0) + SleptFrom(i + 1)

\* C21: a rate-limit failure of one of the first maxRetries calls is never
\* the end of rateLimitedRequest; when requestFn is rejected k times with
\* rate-limit errors and then answers, it has been called exactly k + 1
\* times, k <= maxRetries, and the answer of the last call is returned; for
\* k = 2 primary rate-limit errors without hint the sleeps add up to at
\* least baseDelay + 2 * baseDelay.
C21_RetryThenSuccess ==
    Limiter =>
        /\ \A k \in FailedCalls :
              ( /\ Primary(log[k].arg) \/ Secondary(log[k].arg)
                /\ Cardinality({ j \in Calls : j <= k }) <= options.maxRetries ) =>
                  ~(pc = "done" /\ Len(log) = k)
        /\ (pc = "done" /\ outcome = "returned") =>
              /\ Cardinality(Calls) = Cardinality(FailedCalls) + 1
              /\ Cardinality(FailedCalls) <= options.maxRetries
              /\ \A k \in FailedCalls :
                    Primary(log[k].arg) \/ Secondary(log[k].arg)
              /\ log[Len(log)].req = "requestFn" /\ log[Len(log)].ok
              /\ response = log[Len(log)].arg
              /\ ( /\ Cardinality(FailedCalls) = 2
                   /\ \A k \in FailedCalls :
                         Primary(log[k].arg) /\ NoHint(log[k].arg) ) =>
                     SleptFrom(1) >= options.baseDelay + 2 * options.baseDelay

\* Two primary rate-limit errors without hint, then an answer.
C21_Witness ==
    /\ Limiter /\ pc = "done" /\ outcome = "returned"
    /\ Cardinality(FailedCalls) = 2
    /\ \A k \in FailedCalls : Primary(log[k].arg) /\ NoHint(log[k].arg)
    /\ Cardinality(Calls) = 3
    /\ response = [data |-> "other"]

-----------------------------------------------------------------------------
RECURSIVE SleptBetween(_, _)
\* The sum of the sleeps of the trace from position i up to position j - 1.
SleptBetween(i, j) ==
    IF i >= j THEN 0
    ELSE (IF log[i].req = "sleep" THEN log[i].arg ELSE 0)
         + SleptBetween(i + 1, j)

\* The clock when position i of the trace is reached.
TimeAt(i) == StartTime + SleptBetween(1, i)

\* Call j is the first call of requestFn after the rejected call k.
NextCall(k, j) ==
    /\ k \in FailedCalls /\ j \in Calls /\ k < j
    /\ \A i \in Calls : ~(k < i /\ i < j)

\* The number of calls of requestFn before position k.
AttemptOf(k) == Cardinality({ i \in Calls : i < k })

\* The x-ratelimit-reset header names a time after t.
ResetAfter(e, t) ==
    /\ Len(e.reset) > 0 /\ parseInt(e.reset) # NaN
    /\ parseInt(e.reset) * 1000 > t

\* The retry-after header names a positive number of seconds.
RetryAfterPositive(e) ==
    /\ Len(e.retryAfter) > 0 /\ parseInt(e.retryAfter) # NaN
    /\ parseInt(e.retryAfter) > 0

\* No header of the error suggests a wait at time t.
NoUsableHint(e, t) == ~ResetAfter(e, t) /\ ~RetryAfterPositive(e)

\* C22: after a primary rate-limit failure that carries a reset time in the
\* future the next call of requestFn is not issued before that time; after
\* one without usable hint the wait up to the next call is at least
\* min(baseDelay * 2^attempt, maxDelay) and at most maxDelay.
C22_PrimaryWait ==
    Limiter =>
        \A k \in FailedCalls, j \in Calls :
            ( /\ NextCall(k, j)
              /\ Primary(log[k].arg) /\ ~Secondary(log[k].arg) ) =>
                /\ ResetAfter(log[k].arg, TimeAt(k)) =>
                      TimeAt(j) >= parseInt(log[k].arg.reset) * 1000
                /\ NoUsableHint(log[k].arg, TimeAt(k)) =>
                      /\ SleptBetween(k, j) >=
                            Min(options.baseDelay * Pow2(AttemptOf(k)),
                                options.maxDelay)
                      /\ SleptBetween(k, j) <= options.maxDelay

\* C23 as stated: after every secondary rate-limit failure at least 60000 ms
\* of sleep elapse before the next call of requestFn, whatever the headers.
C23_SecondaryFloor ==
    Limiter =>
        \A k \in FailedCalls, j \in Calls :
            (NextCall(k, j) /\ Secondary(log[k].arg)) =>
                SleptBetween(k, j) >= 60000

\* C23: after every secondary rate-limit failure whose headers suggest no
\* wait (no retry-after worth a positive number of seconds, no reset time in
\* the future) at least 60000 ms of sleep elapse before the next call of
\* requestFn, whatever the attempt number and the computed backoff.
C23_SecondaryFloorWithoutHint ==
    Limiter =>
        \A k \in FailedCalls, j \in Calls :
            ( /\ NextCall(k, j) /\ Secondary(log[k].arg)
              /\ NoUsableHint(log[k].arg, TimeAt(k)) ) =>
                SleptBetween(k, j) >= 60000

\* A secondary rate-limit failure without hint, then another call.
C23_Witness ==
    /\ Limiter
    /\ \E k \in FailedCalls, j \in Calls :
          /\ NextCall(k, j) /\ Secondary(log[k].arg)
          /\ NoUsableHint(log[k].arg, TimeAt(k))
          /\ AttemptOf(k) > 0
          /\ options.maxDelay < 60000

\* C24: a sleep of 50 ms is the first thing rateLimitedRequest does, the
\* first call of requestFn comes right after it, every later call of
\* requestFn comes right after a sleep, and no sleep is empty.
C24_Spacing ==
    Limiter =>
        /\ Len(log) > 0 => log[1] = Req("sleep", 50, TRUE)
        /\ \A k \in Calls :
              /\ k > 1 /\ log[k - 1].req = "sleep"
              /\ AttemptOf(k) = 0 => k = 2
        /\ \A k \in Requests("sleep") : log[k].arg > 0
        /\ \A k \in Calls : k + 1 \notin Calls

\* Three calls of requestFn, each after its sleep.
C24_Witness ==
    /\ Limiter /\ pc = "done"
    /\ Cardinality(Calls) = 3
    /\ \A k \in Calls : log[k - 1].req = "sleep"

-----------------------------------------------------------------------------
\* The calls of the processor and their ends.
ProcessorCalls == Requests("processor")

Settled == Requests("settled")

\* The number of processor calls that have not ended.
InFlight == Cardinality(ProcessorCalls) - Cardinality(Settled)

\* Math.ceil(n / b)
Ceil(n, b) == (n + b - 1) \div b

\* C25: batchProcess has at most one call of the processor in flight, and it
\* calls the processor for the items in order: the call for item i + 1 is
\* issued only after the call for item i has ended with a result.
C25_Sequential ==
    BatchProcess =>
        /\ InFlight \in {0, 1}
        /\ InFlight = 1 <=> pc = "await"
        /\ \A k \in ProcessorCalls :
              /\ log[k].arg.index = Cardinality({ c \in ProcessorCalls : c < k })
              /\ log[k].arg.item = items[log[k].arg.index + 1]
              /\ log[k].arg.index > 0 =>
                    \E d \in Settled :
                        /\ d < k /\ log[d].ok
                        /\ log[d].arg = log[k].arg.index - 1

\* The third item is in flight after the first two have ended.
C25_Witness ==
    /\ BatchProcess /\ pc = "await"
    /\ Cardinality(ProcessorCalls) = 3 /\ Len(results) = 2
    /\ batchOptions.batchSize = 2

\* C26: when batchProcess returns for n items and batch size b, it has slept
\* n - ceil(n / b) times between items and ceil(n / b) - 1 times between
\* batches (never for n = 0), with the delays of its options, and it has not
\* slept after the last item; for n = 25 and b = 10 that is 22 and 2.
C26_BatchSpacing ==
    (BatchProcess /\ pc = "done" /\ outcome = "returned") =>
        LET n == Len(items)
            b == batchOptions.batchSize
            betweenItems == Requests("sleepBetweenItems")
            betweenBatches == Requests("sleepBetweenBatches")
        IN  /\ Cardinality(betweenItems) = n - Ceil(n, b)
            /\ Cardinality(betweenBatches) =
                  IF n = 0 THEN 0 ELSE Ceil(n, b) - 1
            /\ \A k \in betweenItems :
                  log[k].arg = batchOptions.delayBetweenItems
            /\ \A k \in betweenBatches :
                  log[k].arg = batchOptions.delayBetweenBatches
            /\ n > 0 => log[Len(log)].req = "settled"
            /\ n = 0 => log = << >>
            /\ (n = 25 /\ b = 10) =>
                  /\ Cardinality(betweenItems) = 22
                  /\ Cardinality(betweenBatches) = 2

\* 25 items in batches of 10 have been processed.
C26_Witness ==
    /\ BatchProcess /\ pc = "done" /\ outcome = "returned"
    /\ Len(items) = 25 /\ batchOptions.batchSize = 10
    /\ Len(results) = 25
    /\ Cardinality(Requests("sleepBetweenItems")) = 22

\* The blob requests of updateParentOnSGCPush, made by its processor.
ProcessorSteps == { "getBlob", "createBlob" }

\* C27: when the processor is rejected for an item, batchProcess raises that
\* same error, and it has neither called the processor nor slept after the
\* failure, nor returned any result; in updateParentOnSGCPush no tree
\* creation, commit creation or ref update follows a rejected blob request.
C27_BatchFailure ==
    /\ BatchProcess =>
          /\ \A k \in Settled : ~log[k].ok =>
                /\ k = Len(log)
                /\ pc = "done" /\ outcome = "raised"
                /\ error \in ProcessorErrors
                /\ response = << >>
          /\ outcome = "raised" =>
                /\ Len(log) > 0 /\ ~log[Len(log)].ok
                /\ Len(results) = Cardinality(ProcessorCalls) - 1
    /\ ParentSync =>
          \A k \in 1 .. Len(log) :
              (log[k].req \in ProcessorSteps /\ ~log[k].ok) =>
                  \A later \in k + 1 .. Len(log) :
                      log[later].req \notin PublishSteps \cup ProcessorSteps

\* The processor is rejected for the third item, in the second batch.
C27_Witness ==
    /\ BatchProcess /\ pc = "done" /\ outcome = "raised"
    /\ Len(results) = 2 /\ batchOptions.batchSize = 2
    /\ ~log[Len(log)].ok

-----------------------------------------------------------------------------
\* The operations the chain of push events has triggered so far.
Triggered == 1 .. Len(log)

\* C28: a push event caused by a commit of the system (a sync commit, a
\* fallback merge commit, a rebase commit) is never routed to
\* updateParentOnSGCPush, so only the first operation of a chain can be
\* updateParentOnSGCPush, and one push from outside triggers at most three
\* operations, one after the other.
C28_NoSyncLoop ==
    Router =>
        /\ (pc = "route" /\ event.system) =>
              Route(event).fn # "updateParentOnSGCPush"
        /\ \A k \in Triggered :
              log[k].req = "updateParentOnSGCPush" => k = 1
        /\ Len(log) <= 3
        /\ Len(log) < MaxHops

\* The chain sgc-production, production, staging, sgc-staging has ended.
C28_Witness ==
    /\ Router /\ pc = "done" /\ outcome = "skipped"
    /\ Len(log) = 3
    /\ log[1].req = "updateParentOnSGCPush"
    /\ event.system /\ event.ref = "refs/heads/sgc-staging"

-----------------------------------------------------------------------------
\* C29: updateParentOnSGCPush asks for the merge of sgc-<parent> into
\* <parent> only right after a rejected tree creation, commit creation or
\* ref update; after a rejected earlier request no merge is asked for and no
\* merge commit becomes the head of <parent>.
C29_FallbackReserved ==
    ParentSync =>
        /\ \A k \in Requests("merge") :
              /\ k > 1 /\ ~log[k - 1].ok
              /\ log[k - 1].req \in PublishSteps
        /\ \A k \in 1 .. Len(log) :
              (~log[k].ok /\ log[k].req \notin PublishSteps \cup {"merge"}) =>
                  /\ Requests("merge") = { }
                  /\ refs.parent = startRefs.parent

-----------------------------------------------------------------------------
\* The commits that have been the head of <parent> since the invocation
\* started.
EverHeads ==
    {startRefs.parent, refs.parent} \cup ConcurrentCommits
    \cup { log[k].arg.sha : k \in { r \in Requests("updateRef") : log[r].ok } }

\* Someone else has moved <parent> off the head the invocation read.
HeadMovedSinceRead ==
    \E c \in ConcurrentCommits : commits[c].parents = << parentSha >>

\* C30: every commit that has been the head of <parent> stays reachable from
\* the head of <parent>; the ref update of updateParentOnSGCPush is unforced
\* and its commit has the head that was read as only parent; when someone
\* else (a push, a second sync that read the same head) has moved <parent>
\* since the read, the ref update is rejected.
C30_NoLostUpdate ==
    ParentSync =>
        /\ \A h \in EverHeads : h \in Ancestors(refs.parent)
        /\ \A k \in Requests("updateRef") :
              /\ ~log[k].arg.force
              /\ commits[log[k].arg.sha].parents = << parentSha >>
        /\ (pc = "done" /\ outcome = "synced") =>
              /\ ~HeadMovedSinceRead
              /\ refs.parent = newCommit
        /\ HeadMovedSinceRead =>
              \A k \in Requests("updateRef") : ~log[k].ok

\* The head of <parent> moved after it was read, the ref update was
\* rejected and the fallback merge kept both lines.
C30_Witness ==
    /\ ParentSync /\ pc = "done" /\ outcome = "merged"
    /\ HeadMovedSinceRead
    /\ \E k \in Requests("updateRef") : ~log[k].ok
    /\ ConcurrentCommits \subseteq Ancestors(refs.parent)

-----------------------------------------------------------------------------
\* The ref-update requests of the structured publish.
RefUpdates == Requests("updateRef")

\* C31: updateParentOnSGCPush asks for at most one update of the <parent>
\* ref, after every other request of the structured publish has been
\* accepted and with only the fallback merge able to follow it; when it is
\* accepted it ends the invocation and the new head holds the base tree with
\* every recorded update applied, one entry for each blob that was to be
\* fetched; when a request was rejected with an error that is not
\* conflict-class, <parent> holds the SHA it held before.
C31_AtomicPublish ==
    ParentSync =>
        /\ Cardinality(RefUpdates) <= 1
        /\ \A k \in RefUpdates :
              /\ \A j \in 1 .. k - 1 : log[j].ok
              /\ \A j \in k + 1 .. Len(log) : log[j].req = "merge"
              /\ log[k].ok =>
                    /\ k = Len(log) /\ pc = "done"
                    /\ refs.parent = log[k].arg.sha
                    /\ HeadTree("parent") =
                          CreateTree(startRefs.parent, treeUpdates)
                    /\ \A i \in 1 .. Len(blobsToFetch) :
                          \E u \in 1 .. Len(treeUpdates) :
                              /\ treeUpdates[u].path =
                                    blobsToFetch[i].value.path
                              /\ treeUpdates[u].sha = blobsToFetch[i].key
        /\ (Rejected # { } /\ ~ConflictClass(error)) =>
              /\ refs.parent = startRefs.parent
              /\ \A k \in RefUpdates : ~log[k].ok
        /\ refs.parent # startRefs.parent =>
              pc = "done" /\ outcome \in {"synced", "merged"}

\* The commit creation of a publish of two entries was rejected with an
\* error that is not conflict-class: <parent> is where it was.
C31_Witness ==
    /\ ParentSync /\ pc = "done"
    /\ Len(treeUpdates) >= 2
    /\ \E k \in Rejected : log[k].req = "createCommit"
    /\ ~ConflictClass(error)
    /\ refs.parent = startRefs.parent

-----------------------------------------------------------------------------
\* The tree-update entries that write a blob, and those that delete.
Writes == { u \in 1 .. Len(treeUpdates) : treeUpdates[u].sha # null }

Deletes == { u \in 1 .. Len(treeUpdates) : treeUpdates[u].sha = null }

\* The source and the destination of the example.
ExampleSource == (pAssetsA :> 1) @@ (pAssetsB :> 2)

ExampleDestination == (pAssetsA :> 1) @@ (pAssetsC :> 3)

\* The diff, the blobs and the deletions are done.
Classified ==
    pc \in {"createTree", "createCommit", "updateRef"}
    \/ (pc = "done" /\ outcome \in {"synced", "noUpdates"})

\* C32: in updateParentOnSGCPush no path has two tree-update entries; an
\* entry that writes a blob differs from the destination at its path; the
\* entries that write to a path of the destination are counted as updated,
\* those that write to a path absent from it as added, those with sha null
\* as deleted, and the three counts add up to the number of entries; the
\* example of the claim gives 1 added, 0 updated, 1 deleted.
C32_Classification ==
    ParentSync =>
        /\ \A u, v \in 1 .. Len(treeUpdates) :
              treeUpdates[u].path = treeUpdates[v].path => u = v
        /\ \A u \in Writes :
              At(StartTree("parent"), treeUpdates[u].path) # treeUpdates[u].sha
        /\ filesDeleted = Cardinality(Deletes)
        /\ filesUpdated = Cardinality({ u \in Writes :
              treeUpdates[u].path \in DOMAIN StartTree("parent") })
        /\ filesAdded = Cardinality({ u \in Writes :
              treeUpdates[u].path \notin DOMAIN StartTree("parent") })
        /\ filesAdded + filesUpdated + filesDeleted = Len(treeUpdates)
        /\ ( /\ Classified
             /\ StartTree("sgc") = ExampleSource
             /\ StartTree("parent") = ExampleDestination ) =>
               filesAdded = 1 /\ filesUpdated = 0 /\ filesDeleted = 1

\* The example of the claim has been published.
C32_Witness ==
    /\ ParentSync /\ pc = "done" /\ outcome = "synced"
    /\ StartTree("sgc") = ExampleSource
    /\ StartTree("parent") = ExampleDestination
    /\ filesAdded = 1 /\ filesDeleted = 1 /\ Len(treeUpdates) = 2

-----------------------------------------------------------------------------
\* The tree-update entries of a list write blobs in allow-listed directories.
WritesInScope(updates) ==
    \A k \in 1 .. Len(updates) :
        /\ updates[k].sha # null
        /\ InAllowListedDir(updates[k].path)

\* C33: every tree-update entry that updateSGCOnParentPush records or submits
\* has a non-null blob SHA and a path in an allow-listed directory; after its
\* structured publish every path that sgc-<parent> had before is still there
\* and every path outside the allow-list has the presence and blob SHA it had.
C33_NeverDeletesNeverLeavesScope ==
    SGCSync =>
        /\ WritesInScope(treeUpdates)
        /\ \A r \in Requests("createTree") :
               /\ WritesInScope(log[r].arg.tree)
               /\ log[r].arg.base_tree = startRefs.sgc
        /\ (pc = "done" /\ outcome = "synced") =>
               /\ DOMAIN StartTree("sgc") \subseteq DOMAIN HeadTree("sgc")
               /\ \A p \in DOMAIN StartTree("sgc") \cup DOMAIN HeadTree("sgc")
                              \cup DOMAIN StartTree("parent") :
                      ~InAllowListedDir(p) =>
                          At(HeadTree("sgc"), p) = At(StartTree("sgc"), p)

\* A structured publish over a repository in which sgc-<parent> has a path
\* that <parent> lacks and an out-of-scope path on which the two differ.
C33_Witness ==
    /\ SGCSync /\ pc = "done" /\ outcome = "synced"
    /\ Len(treeUpdates) >= 1
    /\ DOMAIN StartTree("sgc") \ DOMAIN StartTree("parent") # {}
    /\ \E p \in DOMAIN StartTree("sgc") :
          /\ ~InAllowListedDir(p)
          /\ At(StartTree("parent"), p) # StartTree("sgc")[p]

-----------------------------------------------------------------------------
\* The requests of the invocation that can move a ref, and the ref they name.
RefMovers ==
    { k \in 1 .. Len(log) : log[k].req \in {"updateRef", "merge"} }

MovedRef(request) ==
    IF request.req = "merge" THEN request.arg.base ELSE request.arg.ref

\* C34: updateParentOnSGCPush issues ref updates and merges on <parent> only
\* and updateSGCOnParentPush on sgc-<parent> only; on every execution path,
\* the fallback merge included, the ref of the source branch holds the SHA
\* it held when the invocation started.
C34_SourceReadOnly ==
    /\ ParentSync =>
          /\ \A k \in RefMovers : MovedRef(log[k]) = "parent"
          /\ refs.sgc = startRefs.sgc
    /\ SGCSync =>
          /\ \A k \in RefMovers : MovedRef(log[k]) = "sgc"
          /\ refs.parent = startRefs.parent

\* A fallback merge has created a merge commit on the destination.
C34_Witness ==
    /\ ParentSync /\ pc = "done" /\ outcome = "merged"
    /\ refs.parent # startRefs.parent
    /\ Len(commits[refs.parent].parents) = 2
    /\ refs.sgc = startRefs.sgc

-----------------------------------------------------------------------------
\* The invocation has returned to its caller without raising.
ReturnedNormally == pc = "done" /\ outcome # "threw"

\* C35: whenever the replay variant returns without raising and staging
\* exists, the commit staging points at is production's head as read or a
\* descendant of it, whether staging was ahead of production, behind it,
\* diverged from it or equal to it.
C35_RebasePostcondition ==
    (ReplayRebase /\ ReturnedNormally /\ stagingExists /\ productionSha # 0) =>
        productionSha \in Ancestors(refs.staging)

-----------------------------------------------------------------------------
\* C36: batchProcess calls the processor for the items in index order, each
\* item at most once while it runs and exactly once when it returns; the list
\* it returns has at position i the processor's result for items[i]; and
\* when every processor call and every sleep ends, it ends, for every list
\* of the model and every batch size from 1.
C36_EachOnceInOrder ==
    /\ [](BatchProcess =>
            /\ batchOptions.batchSize >= 1
            /\ \A k \in ProcessorCalls :
                  /\ log[k].arg.index =
                        Cardinality({ c \in ProcessorCalls : c < k })
                  /\ log[k].arg.item = items[log[k].arg.index + 1]
            /\ Cardinality(ProcessorCalls) <= Len(items)
            /\ results = [k \in 1 .. Len(results) |-> ResultOf(items[k])]
            /\ (pc = "done" /\ outcome = "returned") =>
                  /\ Cardinality(ProcessorCalls) = Len(items)
                  /\ response = [k \in 1 .. Len(items) |-> ResultOf(items[k])]
            /\ (pc = "done" /\ \A k \in Settled : log[k].ok) =>
                  outcome = "returned")
    /\ (BatchProcess ~> (pc = "done"))

\* Five items in batches of two have been processed and returned.
C36_Witness ==
    /\ BatchProcess /\ pc = "done" /\ outcome = "returned"
    /\ Len(items) = 5 /\ batchOptions.batchSize = 2
    /\ Len(response) = 5
    /\ response[5] = ResultOf(items[5])
    /\ Cardinality(ProcessorCalls) = 5

-----------------------------------------------------------------------------
\* The theme-create requests issued so far.
ThemeCreates == Requests("themeCreate")

\* C37: across every interleaving of the runs of handlePreviewTheme for one
\* pull request, a theme-create request is issued only while the description
\* holds no theme id, and at most one theme is created.
C37_AtMostOneTheme ==
    PreviewTheme =>
        /\ \A k \in ThemeCreates : log[k].arg.held = null
        /\ Cardinality({ k \in ThemeCreates : log[k].ok }) <= 1

=============================================================================
